---- MODULE Spec2Model ----
(***************************************************************************)
(* Model of the page-performance tool's measurement and scoring engine.    *)
(*                                                                         *)
(* Conventions                                                             *)
(*  - A nullable JavaScript number is a sequence: <<>> is null/undefined, *)
(*    <<v>> is the number v.                                               *)
(*  - Metric values (LCP, FCP, TTI, FID, CLS, TBT and raw timestamps) are  *)
(*    fixed-point integers in thousandths: the JavaScript number 2.5 is    *)
(*    2500 and 1200 (ms) is 1200000.  Byte sizes, counts and request      *)
(*    durations are plain integers.                                        *)
(***************************************************************************)
EXTENDS Integers, Sequences, FiniteSets, TLC

VARIABLES
    \* ---- playwright analyzer (analyzePerformance, manual instrumentation)
    pc,               \* position of the analyzePerformance call
    browser,          \* "null" | "open" | "closed"
    page,             \* "null" | "open" | "closed"
    closeCalls,       \* set of handles whose close() was invoked in finally
    listening,        \* request/response listeners registered on the page
    observers,        \* init script with the CLS/LCP observers registered
    objs,             \* heap of request records (objects held by the Map)
    networkRequests,  \* the Map: url -> index into objs (0 = no entry)
    keyOrder,         \* insertion order of the Map's keys
    network,          \* performanceData.network accumulators
    events,           \* number of page events delivered so far
    pageLcp,          \* number of largest-contentful-paint entries so far
    pageFcp,          \* startTime of the first-contentful-paint entry
    pageFid,          \* delay of the first-input entry
    pageCls,          \* globalThis.__clsData.value kept by the observer
    loopI,            \* loop counter i of the LCP stabilization loop
    lastLcpValue,     \* lastLcpValue of the stabilization loop
    stableCount,      \* stableCount of the stabilization loop
    observed,         \* what the page actually held at harvest time
    vitals,           \* webVitals returned by page.evaluate (raw)
    metrics,          \* result of calculateMetrics, then FCP added
    performanceData,  \* the value returned by analyzePerformance (or <<>>)
    outcome,          \* "running" | "ok" | error code thrown to the caller
    options,          \* the options argument (networkThrottling)
    elapsed,          \* Date.now() - startTime, in ms (0 before page.goto)
    sampled,          \* what the loop's page.evaluate calls returned so far:
                      \* their number and the three most recent values
    context,          \* "null" | "open" | "closed"
    throttled         \* "no" | "applied" | "failed"

anVars == <<pc, browser, page, closeCalls, listening, observers, objs,
            networkRequests, keyOrder, network, events, pageLcp, loopI,
            lastLcpValue, stableCount, observed, vitals, metrics,
            performanceData, outcome, options, context, throttled,
            pageFcp, pageFid, pageCls, elapsed, sampled>>

VARIABLES
    \* ---- lighthouse analyzer (analyzePerformance, two concurrent requests)
    lhPc,             \* position of each request's analyzePerformance call
    lhBrowser,        \* each request's browser: "null" | "open" | "closed"
    lhPort,           \* request whose browser listens on DEBUGGING_PORT, or 0
    lhCookies,        \* per browser: requests whose cookies were set in it
    lhAttached,       \* per request: the browser Lighthouse audited, or 0
    lhOutcome,        \* per request: "running" | "ok" | error code
    lhAuth,           \* per request: the auth option (see AuthKinds)
    lhBefore,         \* per request: a beforeAnalysis callback was passed
    lhHeaders,        \* per request: names in flags.extraHeaders
    lhStorage,        \* per browser: requests whose storage script it holds
    lhLoggedIn,       \* per request: the login form was filled and submitted
    svUrl,            \* per request: the url field of the request body
    svResponse        \* per request: the HTTP response sent (<<>> = none)

svVars == <<svUrl, svResponse>>

lhVars == <<lhPc, lhBrowser, lhPort, lhCookies, lhAttached, lhOutcome, lhAuth,
            lhBefore, lhHeaders, lhStorage, lhLoggedIn, svVars>>

VARIABLES
    \* ---- pure functions: arguments and result (<<>> until applied)
    scoreIn, scoreOut,     \* calculatePerformanceScore
    normIn, normOut,       \* getRelativeTime and calculateMetrics
    urlIn, urlOut,         \* urlsMatch and the redirect check of processReport
    issuesIn, issuesOut,   \* identifyIssues
    reportIn, reportOut,   \* processReport of the playwright generation
    lhrIn, lhrOut,         \* extractLighthouseData and categorizeIssues
    submitIn, submitOut    \* the Analyze modal's submit up to the request body

fnVars == <<scoreIn, scoreOut, normIn, normOut, urlIn, urlOut, issuesIn,
            issuesOut, reportIn, reportOut, lhrIn, lhrOut, submitIn, submitOut>>

vars == <<anVars, lhVars, fnVars>>

----------------------------------------------------------------------------
(* Nullable numbers *)

Null == <<>>
Some(v) == <<v>>
IsNull(x) == x = <<>>
Val(x) == x[1]

\* JavaScript truthiness of a nullable number: null, undefined and 0 are falsy
Truthy(x) == ~IsNull(x) /\ Val(x) # 0

\* JavaScript a || b on nullable numbers
OrElse(a, b) == IF Truthy(a) THEN a ELSE b

----------------------------------------------------------------------------
(* Bounds of the model *)

\* page events (request, response, paint, LCP entry, layout shift, first
\* input) delivered during one analysis
MaxEvents == 3
\* largest-contentful-paint entries the page emits during one analysis
MaxLcpEntries == 2

URLs == {"u1", "u2"}
ResourceTypes == {"script", "image"}
\* content-length header of a response: absent, or a byte count
ContentLengths == {<<>>, <<300>>}
\* renderTime of the k-th LCP entry (1.5 s apart)
LcpTime(k) == k * 1500000

----------------------------------------------------------------------------
(* Playwright analyzer: helpers *)

\* upper limit of a plausible relative time: 10 minutes, in thousandths of ms
MaxRelativeMs == 600000000

\* the difference to the navigation start, with no validation of its range
GetRelativeTimeUnchecked(timestamp, navigationStart) ==
    IF ~Truthy(timestamp) THEN Null
    ELSE Some(Val(timestamp) - navigationStart)

\* getRelativeTime inside the timing page.evaluate
GetRelativeTime(timestamp, navigationStart) ==
    IF ~Truthy(timestamp) THEN Null
    ELSE IF navigationStart = 0
         THEN IF Val(timestamp) < 0 \/ Val(timestamp) > MaxRelativeMs
              THEN Null ELSE timestamp
         ELSE LET relative == Val(timestamp) - navigationStart
              IN  IF relative < 0 \/ relative > MaxRelativeMs
                  THEN Null ELSE Some(relative)

\* timing.domInteractive && > 0 && < 600000, then / 1000
CalcTti(domInteractive) ==
    IF Truthy(domInteractive) /\ Val(domInteractive) > 0
       /\ Val(domInteractive) < MaxRelativeMs
    THEN Some(Val(domInteractive) \div 1000)
    ELSE Null

\* calculateMetrics(timing, webVitals, loadTime)
CalculateMetrics(timing) ==
    [ fcp |-> Null,
      tti |-> CalcTti(timing.domInteractive),
      speedIndex |->
          IF Truthy(timing.loadComplete) /\ Val(timing.loadComplete) > 0
             /\ Val(timing.loadComplete) < MaxRelativeMs
          THEN Some(Val(timing.loadComplete) \div 1000)
          ELSE IF Truthy(timing.domContentLoaded)
                  /\ Val(timing.domContentLoaded) > 0
                  /\ Val(timing.domContentLoaded) < MaxRelativeMs
          THEN Some(Val(timing.domContentLoaded) \div 1000)
          ELSE Null,
      tbt |-> Some(0) ]

\* the LCP entry the page currently reports (renderTime || loadTime)
CurrentLcp == IF pageLcp = 0 THEN Null ELSE Some(LcpTime(pageLcp))

\* lcp validation before the return: webVitals.lcp && > 0 && < 600000
ValidLcp(lcp) ==
    IF Truthy(lcp) /\ Val(lcp) > 0 /\ Val(lcp) < MaxRelativeMs
    THEN lcp ELSE Null

\* fid validation before the return: webVitals.fid && > 0 && < 10000
ValidFid(fid) ==
    IF Truthy(fid) /\ Val(fid) > 0 /\ Val(fid) < 10000000
    THEN fid ELSE Null

\* FCP from the paint entries: startTime > 0 and < 60000, else left null
FcpFromPaint(startTime) ==
    IF Truthy(startTime) /\ Val(startTime) > 0 /\ Val(startTime) < 60000000
    THEN startTime ELSE Null

\* Array.from(networkRequests.values()): the Map's objects in key order
MapValues == [k \in 1..Len(keyOrder) |-> networkRequests[keyOrder[k]]]

RECURSIVE SumSizes(_, _)
\* sum of (req.size || 0) over the records of ids with resourceType t
SumSizes(ids, t) ==
    IF ids = <<>> THEN 0
    ELSE LET r == objs[Head(ids)]
         IN  (IF r.resourceType = t THEN Val(OrElse(r.size, Some(0))) ELSE 0)
             + SumSizes(Tail(ids), t)

\* resourcesByType computed over network.requests
ResourcesByType(ids) ==
    [t \in {objs[ids[k]].resourceType : k \in 1..Len(ids)} |->
        [ count |-> Cardinality({k \in 1..Len(ids) : objs[ids[k]].resourceType = t}),
          totalSize |-> SumSizes(ids, t) ]]

\* the catch block: maps the thrown error to a PerformanceAnalysisError
ErrorCode(kind) ==
    CASE kind = "TimeoutError" -> "TIMEOUT"
      [] kind = "net::ERR"     -> "NETWORK_ERROR"
      [] OTHER                 -> "ANALYSIS_ERROR"

\* positions at which analyzePerformance is suspended on an await inside try
AwaitPcs == {"newContext", "newPage", "initScript", "goto", "lcpLoop",
             "finalWait", "harvestVitals", "harvestPaints"}

\* positions at which page events are delivered to the registered listeners
EventPcs == {"goto", "networkidle", "lcpLoop", "finalWait",
             "harvestVitals", "collectNetwork", "harvestPaints"}

----------------------------------------------------------------------------
(* Playwright analyzer: state machine of analyzePerformance *)

\* the variables local to the try block, before they are first assigned
\* and after control has left the block
tryLocals == <<objs, networkRequests, keyOrder, network, loopI, lastLcpValue,
               stableCount, vitals, metrics>>
NoNetwork == [ requests |-> <<>>, totalSize |-> 0, requestCount |-> 0,
               responseCount |-> 0, resourcesByType |-> <<>> ]
DropLocals ==
    /\ objs' = <<>> /\ networkRequests' = [u \in URLs |-> 0]
    /\ keyOrder' = <<>> /\ network' = NoNetwork
    /\ loopI' = 0 /\ lastLcpValue' = Null /\ stableCount' = 0
    /\ vitals' = <<>> /\ metrics' = <<>>

\* no sample taken
NoSamples == [count |-> 0, last |-> <<>>]

\* one more value returned by the loop's page.evaluate
Sampled(currentLcp) ==
    [ count |-> sampled.count + 1,
      last |-> IF Len(sampled.last) < 3
               THEN Append(sampled.last, currentLcp)
               ELSE Append(Tail(sampled.last), currentLcp) ]

AnStart(pc0) ==
    /\ pc = pc0
    /\ browser = "null" /\ context = "null" /\ page = "null"
    /\ closeCalls = {}
    /\ listening = FALSE /\ observers = FALSE
    /\ objs = <<>> /\ networkRequests = [u \in URLs |-> 0]
    /\ keyOrder = <<>> /\ network = NoNetwork
    /\ loopI = 0 /\ lastLcpValue = Null /\ stableCount = 0
    /\ vitals = <<>> /\ metrics = <<>>
    /\ events = 0
    /\ pageLcp = 0 /\ pageFcp = Null /\ pageFid = Null /\ pageCls = 0
    /\ observed = <<>>
    /\ performanceData = <<>>
    /\ outcome = "running"
    /\ throttled = "no"
    /\ elapsed = 0
    /\ sampled = NoSamples

\* an analysis request arrives with its options
AnInit ==
    /\ AnStart("launch")
    /\ options \in [networkThrottling : {"wifi", "4g"}]

\* no playwright analysis is running
AnIdle ==
    /\ AnStart("off")
    /\ options = [networkThrottling |-> "wifi"]

\* a rejection that returns to the caller without running the finally block
RejectSkipsFinally(kind) ==
    /\ outcome' = ErrorCode(kind)
    /\ pc' = "done"
    /\ DropLocals
    /\ observed' = <<>>

\* control leaves the try block with an exception: catch, then finally
Reject(kind) ==
    /\ outcome' = ErrorCode(kind)
    /\ pc' = "finally"
    /\ DropLocals
    /\ observed' = <<>>

\* the timeout option: the longest page.goto may take
timeout == 60000

\* time page.goto takes when it settles before its timeout
GotoDurations == {1000, 59000}

\* time the network idle wait takes; the wait has its own limit of 30000 ms,
\* a longer wait than the one listed only adds to the elapsed time
NetworkIdleDurations == {500}

\* chromium.launch
Launch ==
    /\ pc = "launch"
    /\ \/ /\ browser' = "open"
          /\ pc' = "newContext"
          /\ UNCHANGED <<outcome, tryLocals, observed>>
       \/ /\ Reject("other")
          /\ UNCHANGED browser
    /\ UNCHANGED <<page, context, closeCalls, listening, observers, events,
                   pageLcp, performanceData, options, throttled, pageFcp,
                   pageFid, pageCls>>
    /\ UNCHANGED <<lhVars, fnVars, elapsed, sampled>>

\* browser.newContext
NewContext ==
    /\ pc = "newContext"
    /\ context' = "open"
    /\ pc' = "newPage"
    /\ UNCHANGED <<browser, page, closeCalls, listening, observers, objs,
                   networkRequests, keyOrder, network, events, pageLcp, loopI,
                   lastLcpValue, stableCount, observed, vitals, metrics,
                   performanceData, outcome, options, throttled, pageFcp, pageFid, pageCls>>
    /\ UNCHANGED <<lhVars, fnVars, elapsed, sampled>>

\* context.newPage
NewPage ==
    /\ pc = "newPage"
    /\ page' = "open"
    /\ pc' = "throttle"
    /\ UNCHANGED <<browser, context, closeCalls, listening, observers, objs,
                   networkRequests, keyOrder, network, events, pageLcp, loopI,
                   lastLcpValue, stableCount, observed, vitals, metrics,
                   performanceData, outcome, options, throttled, pageFcp, pageFid, pageCls>>
    /\ UNCHANGED <<lhVars, fnVars, elapsed, sampled>>

\* network throttling over CDP; a failure is caught and ignored
Throttle ==
    /\ pc = "throttle"
    /\ IF options.networkThrottling # "wifi"
       THEN throttled' \in {"applied", "failed"}
       ELSE throttled' = "no"
    /\ pc' = "listeners"
    /\ UNCHANGED <<browser, context, page, closeCalls, listening, observers,
                   objs, networkRequests, keyOrder, network, events, pageLcp,
                   loopI, lastLcpValue, stableCount, observed, vitals, metrics,
                   performanceData, outcome, options, pageFcp, pageFid, pageCls>>
    /\ UNCHANGED <<lhVars, fnVars, elapsed, sampled>>

\* page.on('request') and page.on('response')
RegisterListeners ==
    /\ pc = "listeners"
    /\ listening' = TRUE
    /\ pc' = "initScript"
    /\ UNCHANGED <<browser, context, page, closeCalls, observers, objs,
                   networkRequests, keyOrder, network, events, pageLcp, loopI,
                   lastLcpValue, stableCount, observed, vitals, metrics,
                   performanceData, outcome, options, throttled, pageFcp, pageFid, pageCls>>
    /\ UNCHANGED <<lhVars, fnVars, elapsed, sampled>>

\* an init script that sets up no observer (they would be created after
\* navigation, in the harvesting evaluate)
AddInitScriptWithoutObservers ==
    /\ pc = "initScript"
    /\ observers' = FALSE
    /\ pc' = "goto"
    /\ UNCHANGED <<browser, context, page, closeCalls, listening, objs,
                   networkRequests, keyOrder, network, events, pageLcp, loopI,
                   lastLcpValue, stableCount, observed, vitals, metrics,
                   performanceData, outcome, options, throttled, pageFcp, pageFid, pageCls>>
    /\ UNCHANGED <<lhVars, fnVars, elapsed, sampled>>

\* page.addInitScript with the layout-shift and LCP observers
AddInitScript ==
    /\ pc = "initScript"
    /\ observers' = TRUE
    /\ pc' = "goto"
    /\ UNCHANGED <<browser, context, page, closeCalls, listening, objs,
                   networkRequests, keyOrder, network, events, pageLcp, loopI,
                   lastLcpValue, stableCount, observed, vitals, metrics,
                   performanceData, outcome, options, throttled, pageFcp, pageFid, pageCls>>
    /\ UNCHANGED <<lhVars, fnVars, elapsed, sampled>>

\* page.goto(url, {waitUntil: 'domcontentloaded', timeout})
Goto ==
    /\ pc = "goto"
    /\ \/ /\ pc' = "networkidle"
          /\ elapsed' \in GotoDurations
          /\ UNCHANGED <<outcome, tryLocals, observed>>
       \/ Reject("TimeoutError") /\ elapsed' = timeout
       \/ Reject("net::ERR") /\ elapsed' \in GotoDurations
    /\ UNCHANGED <<browser, context, page, closeCalls, listening, observers,
                   events, pageLcp, performanceData, options, throttled,
                   pageFcp, pageFid, pageCls>>
    /\ UNCHANGED <<lhVars, fnVars, sampled>>

\* page.waitForLoadState('networkidle'); its timeout is caught and ignored
NetworkIdle ==
    /\ pc = "networkidle"
    /\ pc' = "lcpLoop"
    /\ \E d \in NetworkIdleDurations : elapsed' = elapsed + d
    /\ loopI' = 0 /\ lastLcpValue' = Null /\ stableCount' = 0
    /\ UNCHANGED <<browser, context, page, closeCalls, listening, observers,
                   objs, networkRequests, keyOrder, network, events, pageLcp,
                   observed, vitals, metrics, performanceData, outcome,
                   options, throttled, pageFcp, pageFid, pageCls>>
    /\ UNCHANGED <<lhVars, fnVars, sampled>>

\* any other await inside the try block rejects (page or browser crashed)
AwaitRejects ==
    /\ pc \in AwaitPcs
    /\ Reject("other")
    /\ UNCHANGED <<browser, context, page, closeCalls, listening, observers,
                   events, pageLcp, performanceData, options, throttled,
                   pageFcp, pageFid, pageCls>>
    /\ UNCHANGED <<lhVars, fnVars, elapsed, sampled>>

\* number of samples the LCP stabilization loop may take
MaxLcpSamples == 10

\* the page emits a further largest-contentful-paint entry
LcpEntry ==
    /\ page = "open" /\ pc \in EventPcs
    /\ events < MaxEvents /\ pageLcp < MaxLcpEntries
    /\ events' = events + 1
    /\ pageLcp' = pageLcp + 1
    /\ UNCHANGED <<pc, browser, context, page, closeCalls, listening,
                   observers, objs, networkRequests, keyOrder, network,
                   loopI, lastLcpValue, stableCount, observed, vitals, metrics,
                   performanceData, outcome, options, throttled, pageFcp,
                   pageFid, pageCls>>
    /\ UNCHANGED <<lhVars, fnVars, elapsed, sampled>>

\* startTime of a first-contentful-paint entry
FcpTimes == {600000, 2500000}

\* the page paints its first content
PaintEvent(t) ==
    /\ page = "open" /\ pc \in EventPcs
    /\ events < MaxEvents /\ IsNull(pageFcp)
    /\ events' = events + 1
    /\ pageFcp' = Some(t)
    /\ UNCHANGED <<pc, browser, context, page, closeCalls, listening,
                   observers, objs, networkRequests, keyOrder, network,
                   pageLcp, loopI, lastLcpValue, stableCount, observed, vitals,
                   metrics, performanceData, outcome, options, throttled,
                   pageFid, pageCls>>
    /\ UNCHANGED <<lhVars, fnVars, elapsed, sampled>>

\* processingStart - startTime of a first-input entry
FidDelays == {0, 50000}

\* the page receives its first user input
FirstInput(d) ==
    /\ page = "open" /\ pc \in EventPcs
    /\ events < MaxEvents /\ IsNull(pageFid)
    /\ events' = events + 1
    /\ pageFid' = Some(d)
    /\ UNCHANGED <<pc, browser, context, page, closeCalls, listening,
                   observers, objs, networkRequests, keyOrder, network,
                   pageLcp, loopI, lastLcpValue, stableCount, observed, vitals,
                   metrics, performanceData, outcome, options, throttled,
                   pageFcp, pageCls>>
    /\ UNCHANGED <<lhVars, fnVars, elapsed, sampled>>

\* value of a layout-shift entry without recent input (0.15)
ShiftValues == {150}

\* the layout-shift observer of the init script adds an entry's value
LayoutShift ==
    /\ page = "open" /\ pc \in EventPcs /\ observers
    /\ events < MaxEvents
    /\ events' = events + 1
    /\ \E value \in ShiftValues : pageCls' = pageCls + value
    /\ UNCHANGED <<pc, browser, context, page, closeCalls, listening,
                   observers, objs, networkRequests, keyOrder, network,
                   pageLcp, loopI, lastLcpValue, stableCount, observed, vitals,
                   metrics, performanceData, outcome, options, throttled,
                   pageFcp, pageFid>>
    /\ UNCHANGED <<lhVars, fnVars, elapsed, sampled>>

\* page.on('request') handler
OnRequest(u, t) ==
    /\ listening /\ page = "open" /\ pc \in EventPcs
    /\ events < MaxEvents
    /\ events' = events + 1
    /\ objs' = Append(objs, [ url |-> u, resourceType |-> t, size |-> Null,
                              duration |-> Null, status |-> Null ])
    /\ networkRequests' = [networkRequests EXCEPT ![u] = Len(objs) + 1]
    /\ keyOrder' = IF networkRequests[u] = 0 THEN Append(keyOrder, u)
                   ELSE keyOrder
    /\ network' = [network EXCEPT !.requestCount = @ + 1]
    /\ UNCHANGED <<pc, browser, context, page, closeCalls, listening,
                   observers, pageLcp, loopI, lastLcpValue, stableCount,
                   observed, vitals, metrics, performanceData, outcome,
                   options, throttled, pageFcp, pageFid, pageCls>>
    /\ UNCHANGED <<lhVars, fnVars, elapsed, sampled>>

\* page.on('response') handler; cl is the content-length header
OnResponse(u, cl) ==
    /\ listening /\ page = "open" /\ pc \in EventPcs
    /\ events < MaxEvents
    /\ events' = events + 1
    /\ IF networkRequests[u] # 0
       THEN LET bodySize == IF Truthy(cl) THEN Val(cl) ELSE 0
            IN  /\ objs' = [objs EXCEPT ![networkRequests[u]] =
                              [@ EXCEPT !.size = Some(bodySize),
                                        !.duration = Some(250),
                                        !.status = Some(200)]]
                /\ network' = [network EXCEPT !.totalSize = @ + bodySize,
                                              !.responseCount = @ + 1]
       ELSE UNCHANGED <<objs, network>>
    /\ UNCHANGED <<pc, browser, context, page, closeCalls, listening,
                   observers, networkRequests, keyOrder, pageLcp, loopI,
                   lastLcpValue, stableCount, observed, vitals, metrics,
                   performanceData, outcome, options, throttled, pageFcp, pageFid, pageCls>>
    /\ UNCHANGED <<lhVars, fnVars, elapsed, sampled>>

\* the body of the loop with a break as soon as one sample repeats
LoopIterationBreakOnFirstRepeat(currentLcp) ==
    /\ elapsed' = elapsed + 500
    /\ sampled' = Sampled(currentLcp)
    /\ IF currentLcp = lastLcpValue /\ ~IsNull(currentLcp)
       THEN /\ stableCount' = stableCount + 1
            /\ pc' = "finalWait" /\ UNCHANGED loopI
            /\ UNCHANGED lastLcpValue
       ELSE /\ stableCount' = 0
            /\ lastLcpValue' = currentLcp
            /\ loopI' = loopI + 1
            /\ UNCHANGED pc

\* the body of the loop: waitForTimeout(500), then the value currentLcp
\* returned by page.evaluate is compared with lastLcpValue
LoopIteration(currentLcp) ==
    /\ elapsed' = elapsed + 500
    /\ sampled' = Sampled(currentLcp)
    /\ IF currentLcp = lastLcpValue /\ ~IsNull(currentLcp)
       THEN /\ stableCount' = stableCount + 1
            /\ IF stableCount + 1 >= 2
               THEN pc' = "finalWait" /\ UNCHANGED loopI
               ELSE loopI' = loopI + 1 /\ UNCHANGED pc
            /\ UNCHANGED lastLcpValue
       ELSE /\ stableCount' = 0
            /\ lastLcpValue' = currentLcp
            /\ loopI' = loopI + 1
            /\ UNCHANGED pc

\* one iteration of the LCP stabilization loop
LcpSample ==
    /\ pc = "lcpLoop"
    /\ loopI < MaxLcpSamples
    /\ LoopIteration(CurrentLcp)
    /\ UNCHANGED <<browser, context, page, closeCalls, listening, observers,
                   objs, networkRequests, keyOrder, network, events, pageLcp,
                   observed, vitals, metrics, performanceData, outcome,
                   options, throttled, pageFcp, pageFid, pageCls>>
    /\ UNCHANGED <<lhVars, fnVars>>

\* LCP entries the page may have emitted by the end of the loop
MaxLoopEntries == 11

\* one iteration of the loop during which the page has come to hold k
\* largest-contentful-paint entries
LcpSampleOf(k) ==
    /\ pc = "lcpLoop"
    /\ loopI < MaxLcpSamples
    /\ k >= pageLcp
    /\ pageLcp' = k
    /\ LoopIteration(IF k = 0 THEN Null ELSE Some(LcpTime(k)))
    /\ UNCHANGED <<browser, context, page, closeCalls, listening, observers,
                   objs, networkRequests, keyOrder, network, events,
                   observed, vitals, metrics, performanceData, outcome,
                   options, throttled, pageFcp, pageFid, pageCls>>
    /\ UNCHANGED <<lhVars, fnVars>>

\* a loop whose exhausted counter does not end it
LcpLoopEndStays ==
    /\ pc = "lcpLoop"
    /\ loopI >= MaxLcpSamples
    /\ UNCHANGED vars

\* the loop condition i < 10 fails
LcpLoopEnd ==
    /\ pc = "lcpLoop"
    /\ loopI >= MaxLcpSamples
    /\ pc' = "finalWait"
    /\ UNCHANGED <<browser, context, page, closeCalls, listening, observers,
                   objs, networkRequests, keyOrder, network, events, pageLcp,
                   loopI, lastLcpValue, stableCount, observed, vitals, metrics,
                   performanceData, outcome, options, throttled, pageFcp, pageFid, pageCls>>
    /\ UNCHANGED <<lhVars, fnVars, elapsed, sampled>>

\* the final wait with a faulty continuation that navigates again
FinalWaitNavigatesAgain ==
    /\ pc = "finalWait"
    /\ pc' = "goto"
    /\ elapsed' = elapsed
    /\ sampled' = NoSamples
    /\ UNCHANGED <<browser, context, page, closeCalls, listening, observers,
                   objs, networkRequests, keyOrder, network, events, pageLcp,
                   loopI, lastLcpValue, stableCount, observed, vitals, metrics,
                   performanceData, outcome, options, throttled, pageFcp, pageFid, pageCls>>
    /\ UNCHANGED <<lhVars, fnVars>>

\* page.waitForTimeout(1000) after the loop
FinalWait ==
    /\ pc = "finalWait"
    /\ pc' = "harvestVitals"
    /\ elapsed' = elapsed + 1000
    /\ sampled' = NoSamples
    /\ UNCHANGED <<browser, context, page, closeCalls, listening, observers,
                   objs, networkRequests, keyOrder, network, events, pageLcp,
                   loopI, lastLcpValue, stableCount, observed, vitals, metrics,
                   performanceData, outcome, options, throttled, pageFcp, pageFid, pageCls>>
    /\ UNCHANGED <<lhVars, fnVars>>

\* the navigation timing entry of the page: none, or its fetchStart and
\* domInteractive (navigationStart itself is not a field of the entry)
NavEntries == {<<>>} \cup
    { <<[fetchStart |-> fs, domInteractive |-> di]>> :
        fs \in {0, 2000}, di \in {1500000} }

\* the object returned by the timing page.evaluate
Timing(nav) ==
    IF nav = <<>> THEN [ domContentLoaded |-> Null, loadComplete |-> Null,
                         domInteractive |-> Null ]
    ELSE LET perf == nav[1]
             navigationStart == Val(OrElse(Null, OrElse(Some(perf.fetchStart), Some(0))))
         IN  [ domContentLoaded |-> GetRelativeTime(Some(perf.domInteractive), navigationStart),
               loadComplete |-> GetRelativeTime(Some(perf.domInteractive), navigationStart),
               domInteractive |-> GetRelativeTime(Some(perf.domInteractive), navigationStart) ]

\* the webVitals object returned by page.evaluate, with cls as re-read from
\* __clsData (clsData.value || 0)
WebVitals ==
    [ lcp |-> IF pageLcp > 0 THEN CurrentLcp
              ELSE OrElse(CurrentLcp, Null),
      fid |-> pageFid,
      cls |-> OrElse(Some(pageCls), Some(0)) ]

\* timing, webVitals and clsData page.evaluate calls, then calculateMetrics
HarvestVitals ==
    /\ pc = "harvestVitals"
    /\ \E nav \in NavEntries :
        /\ observed' = [ lcp |-> CurrentLcp, fid |-> pageFid,
                         cls |-> Some(pageCls), fcp |-> Null,
                         tti |-> IF nav = <<>> THEN Null
                                 ELSE Some(nav[1].domInteractive),
                         tbt |-> Null ]
        /\ metrics' = CalculateMetrics(Timing(nav))
    /\ vitals' = WebVitals
    /\ pc' = "collectNetwork"
    /\ UNCHANGED <<browser, context, page, closeCalls, listening, observers,
                   objs, networkRequests, keyOrder, network, events, pageLcp,
                   loopI, lastLcpValue, stableCount, performanceData, outcome,
                   options, throttled, pageFcp, pageFid, pageCls>>
    /\ UNCHANGED <<lhVars, fnVars, elapsed, sampled>>

\* network.requests = Array.from(networkRequests.values()), resourcesByType
CollectNetwork ==
    /\ pc = "collectNetwork"
    /\ network' = [network EXCEPT !.requests = MapValues,
                                  !.resourcesByType = ResourcesByType(MapValues)]
    /\ pc' = "harvestPaints"
    /\ UNCHANGED <<browser, context, page, closeCalls, listening, observers,
                   objs, networkRequests, keyOrder, events, pageLcp, loopI,
                   lastLcpValue, stableCount, observed, vitals, metrics,
                   performanceData, outcome, options, throttled, pageFcp, pageFid, pageCls>>
    /\ UNCHANGED <<lhVars, fnVars, elapsed, sampled>>

\* the value analyzePerformance returns
PerformanceData(m) ==
    [ network |-> [network EXCEPT !.requests =
          [k \in 1..Len(network.requests) |-> objs[network.requests[k]]]],
      webVitals |-> [ lcp |-> ValidLcp(vitals.lcp),
                      fid |-> ValidFid(vitals.fid),
                      cls |-> vitals.cls ],
      metrics |-> m ]

\* paints page.evaluate, FCP, validated web vitals, return performanceData
HarvestPaints ==
    /\ pc = "harvestPaints"
    /\ LET m == [metrics EXCEPT !.fcp = FcpFromPaint(pageFcp)]
       IN  /\ observed' = [observed EXCEPT !.fcp = pageFcp]
           /\ performanceData' = PerformanceData(m)
    /\ outcome' = "ok"
    /\ pc' = "finally"
    /\ DropLocals
    /\ UNCHANGED <<browser, context, page, closeCalls, listening, observers,
                   events, pageLcp, options, throttled, pageFcp, pageFid,
                   pageCls>>
    /\ UNCHANGED <<lhVars, fnVars, elapsed, sampled>>

\* the finally block: page.close() when a page exists, then browser.close()
\* when a browser exists; a close that throws is caught and leaves the handle
\* as it was.  A browser that closes takes its contexts and pages with it.
Finally ==
    /\ pc = "finally"
    /\ closeCalls' = {h \in {"page"} : page # "null"}
                     \cup {h \in {"browser"} : browser # "null"}
    /\ \E pageCloses \in BOOLEAN, browserCloses \in BOOLEAN :
        LET page1 == IF page # "null" /\ pageCloses THEN "closed" ELSE page
        IN  IF browser # "null" /\ browserCloses
            THEN /\ browser' = "closed"
                 /\ context' = IF context = "null" THEN "null" ELSE "closed"
                 /\ page' = IF page1 = "null" THEN "null" ELSE "closed"
            ELSE /\ page' = page1
                 /\ UNCHANGED <<browser, context>>
    /\ pc' = "done"
    /\ UNCHANGED <<listening, observers, objs, networkRequests, keyOrder,
                   network, events, pageLcp, loopI, lastLcpValue, stableCount,
                   observed, vitals, metrics, performanceData, outcome,
                   options, throttled, pageFcp, pageFid, pageCls>>
    /\ UNCHANGED <<lhVars, fnVars, elapsed, sampled>>

AnNext ==
    \/ Launch \/ NewContext \/ NewPage \/ Throttle \/ RegisterListeners
    \/ AddInitScript \/ Goto \/ NetworkIdle \/ AwaitRejects \/ LcpEntry
    \/ (\E t \in FcpTimes : PaintEvent(t))
    \/ (\E d \in FidDelays : FirstInput(d))
    \/ LayoutShift
    \/ (\E u \in URLs, t \in ResourceTypes : OnRequest(u, t))
    \/ (\E u \in URLs, cl \in ContentLengths : OnResponse(u, cl))
    \/ LcpSample \/ LcpLoopEnd \/ FinalWait \/ HarvestVitals
    \/ CollectNetwork \/ HarvestPaints \/ Finally

----------------------------------------------------------------------------
(* The lighthouse analyzer, src/backend/src/services/performanceAnalyzer.js.
   Two requests of POST /api/analyze run analyzePerformance concurrently in
   the one server process.  Browser r is the Chromium launched by request r.
   Every launch asks for the same remote debugging port; Lighthouse and the
   CDP cookie injection reach "the browser" through that port. *)

Requests == {1, 2}

DEBUGGING_PORT == 9222

\* the browser listening on a port: only DEBUGGING_PORT is ever bound
Listener(port) == IF port = DEBUGGING_PORT THEN lhPort ELSE 0

LhErrorCode(kind) ==
    CASE kind = "ECONNREFUSED" -> "NETWORK_ERROR"
      [] kind = "timeout"      -> "TIMEOUT"
      [] kind = "nolhr"        -> "LIGHTHOUSE_ERROR"
      [] OTHER                 -> "ANALYSIS_ERROR"

LhReject(r, kind) ==
    /\ lhOutcome' = [lhOutcome EXCEPT ![r] = LhErrorCode(kind)]
    /\ lhPc' = [lhPc EXCEPT ![r] = "finally"]

\* browser = await chromium.launch({args: [--remote-debugging-port=9222]})
\* A second Chromium cannot bind a port that is taken: it either runs without
\* a debugging endpoint or the launch rejects.
LhLaunch(r) ==
    /\ lhPc[r] = "launch"
    /\ \/ /\ lhBrowser' = [lhBrowser EXCEPT ![r] = "open"]
          /\ lhPort' = IF lhPort = 0 THEN r ELSE lhPort
          /\ lhPc' = [lhPc EXCEPT ![r] = "auth"]
          /\ UNCHANGED lhOutcome
       \/ /\ LhReject(r, "launch")
          /\ UNCHANGED <<lhBrowser, lhPort>>
    /\ UNCHANGED <<lhCookies, lhAttached, lhAuth, lhBefore, lhHeaders,
                   lhStorage, lhLoggedIn, svVars,
                   anVars, fnVars>>

\* the auth option of a request: absent; an object without any usable
\* credential; a cookie string; localStorage items (no token among them);
\* a login form descriptor (type login, loginUrl, username, password)
AuthKinds == {"none", "empty", "cookies", "storage", "login"}

\* extraHeaders with a Cookie header for every kind of auth object
ExtraHeadersAlwaysCookie(kind) == {"Cookie"}

\* the extraHeaders injectAuthentication returns for an auth object
ExtraHeaders(kind) == IF kind = "cookies" THEN {"Cookie"} ELSE {}

\* if (auth) injectAuthentication(browser, url, auth).  Without usable data
\* it returns at once.  Cookies are set through CDP at 127.0.0.1:9222, in
\* whichever browser listens there; a failure of that connection is caught
\* and logged.  Storage is registered through the same port; when that
\* fails, through a context of the request's own browser, whose creation is
\* outside the inner try.  Login credentials are recognised and not used.
LhInjectAuthentication(r) ==
    /\ lhPc[r] = "auth"
    /\ LET target == Listener(DEBUGGING_PORT)
           kind == lhAuth[r]
           proceed ==
               /\ lhPc' = [lhPc EXCEPT ![r] = "before"]
               /\ lhHeaders' = [lhHeaders EXCEPT ![r] = ExtraHeaders(kind)]
               /\ UNCHANGED lhOutcome
       IN  CASE kind = "cookies" ->
                  /\ lhCookies' = IF target # 0
                                  THEN [lhCookies EXCEPT ![target] = @ \cup {r}]
                                  ELSE lhCookies
                  /\ proceed
                  /\ UNCHANGED lhStorage
             [] kind = "storage" ->
                  /\ \/ /\ target # 0
                        /\ lhStorage' = [lhStorage EXCEPT
                                             ![target] = @ \cup {r}]
                        /\ proceed
                     \/ /\ lhStorage' = [lhStorage EXCEPT ![r] = @ \cup {r}]
                        /\ proceed
                     \/ /\ UNCHANGED lhStorage
                        /\ proceed
                     \/ /\ LhReject(r, "newContext")
                        /\ UNCHANGED <<lhStorage, lhHeaders>>
                  /\ UNCHANGED lhCookies
             [] OTHER ->
                  /\ proceed
                  /\ UNCHANGED <<lhCookies, lhStorage>>
    /\ UNCHANGED <<lhBrowser, lhPort, lhAttached, lhAuth, lhBefore,
                   lhLoggedIn, svVars,
                   anVars, fnVars>>

\* if (beforeAnalysis) await beforeAnalysis(page, context): the callback of
\* analyzeAuthenticatedPage opens the login page, fills the two fields,
\* submits and waits; POST /api/analyze passes no callback
LhBeforeAnalysis(r) ==
    /\ lhPc[r] = "before"
    /\ IF lhBefore[r]
       THEN \/ /\ lhLoggedIn' = [lhLoggedIn EXCEPT ![r] = TRUE]
               /\ lhPc' = [lhPc EXCEPT ![r] = "lighthouse"]
               /\ UNCHANGED lhOutcome
            \/ /\ LhReject(r, "beforeAnalysis")
               /\ UNCHANGED lhLoggedIn
       ELSE /\ lhPc' = [lhPc EXCEPT ![r] = "lighthouse"]
            /\ UNCHANGED <<lhOutcome, lhLoggedIn>>
    /\ UNCHANGED <<lhBrowser, lhPort, lhCookies, lhAttached, lhAuth, lhBefore,
                   lhHeaders, lhStorage, svVars,
                   anVars, fnVars>>

\* runnerResult = await lighthouse(url, {port: 9222, ...}, config):
\* Lighthouse connects to the port and audits the page in that browser.
LhLighthouse(r) ==
    /\ lhPc[r] = "lighthouse"
    /\ LET target == Listener(DEBUGGING_PORT)
       IN  IF target = 0
           THEN /\ LhReject(r, "ECONNREFUSED")
                /\ UNCHANGED lhAttached
           ELSE \/ /\ lhAttached' = [lhAttached EXCEPT ![r] = target]
                   /\ lhPc' = [lhPc EXCEPT ![r] = "screenshot"]
                   /\ UNCHANGED lhOutcome
                \/ /\ \E kind \in {"timeout", "nolhr"} : LhReject(r, kind)
                   /\ lhAttached' = [lhAttached EXCEPT ![r] = target]
    /\ UNCHANGED <<lhBrowser, lhPort, lhCookies, lhAuth, lhBefore, lhHeaders,
                   lhStorage, lhLoggedIn, svVars,
                   anVars, fnVars>>

\* the screenshot block runs on the request's own playwright handle, inside
\* its own try/catch; then extractLighthouseData and the return
LhScreenshot(r) ==
    /\ lhPc[r] = "screenshot"
    /\ lhOutcome' = [lhOutcome EXCEPT ![r] = "ok"]
    /\ lhPc' = [lhPc EXCEPT ![r] = "finally"]
    /\ UNCHANGED <<lhBrowser, lhPort, lhCookies, lhAttached, lhAuth, lhBefore,
                   lhHeaders, lhStorage, lhLoggedIn, svVars,
                   anVars, fnVars>>

\* finally { if (browser) await browser.close() }
LhFinally(r) ==
    /\ lhPc[r] = "finally"
    /\ lhBrowser' = [lhBrowser EXCEPT
                        ![r] = IF @ = "open" THEN "closed" ELSE @]
    /\ lhPort' = IF lhPort = r THEN 0 ELSE lhPort
    /\ lhPc' = [lhPc EXCEPT ![r] = "done"]
    /\ UNCHANGED <<lhCookies, lhAttached, lhOutcome, lhAuth, lhBefore,
                   lhHeaders, lhStorage, lhLoggedIn, svVars,
                   anVars, fnVars>>

LhInit ==
    /\ lhPc = [r \in Requests |-> "launch"]
    /\ lhBrowser = [r \in Requests |-> "null"]
    /\ lhPort = 0
    /\ lhCookies = [r \in Requests |-> {}]
    /\ lhAttached = [r \in Requests |-> 0]
    /\ lhOutcome = [r \in Requests |-> "running"]
    /\ lhAuth \in [Requests -> AuthKinds]
    /\ lhBefore \in [Requests -> BOOLEAN]
    /\ lhHeaders = [r \in Requests |-> {}]
    /\ lhStorage = [r \in Requests |-> {}]
    /\ lhLoggedIn = [r \in Requests |-> FALSE]
    /\ svUrl = [r \in Requests |-> "wellformed"]
    /\ svResponse = [r \in Requests |-> <<>>]

LhNext ==
    \E r \in Requests :
        \/ LhLaunch(r)
        \/ LhInjectAuthentication(r)
        \/ LhBeforeAnalysis(r)
        \/ LhLighthouse(r)
        \/ LhScreenshot(r)
        \/ LhFinally(r)

----------------------------------------------------------------------------
(* POST /api/analyze of src/backend/src/server.js: the url of the request
   body is checked, then validated, and only then handed to
   analyzePerformance of the lighthouse analyzer. *)

\* the url field of a request body: absent (undefined, null or ''), only
\* white space, not a string, a string new URL cannot parse, a URL of a
\* protocol other than http(s), a well-formed http(s) URL
UrlKinds == {"absent", "blank", "nonString", "unparseable", "otherProtocol",
             "wellformed"}

\* a format check that only looks for a non-empty string
ValidateURLFormatPresenceOnly(url) ==
    CASE url \in {"absent", "nonString"} -> "MISSING_URL"
      [] url = "blank"                   -> "EMPTY_URL"
      [] OTHER                           -> "valid"

\* validateURLFormat: the error code, or "valid"
ValidateURLFormat(url) ==
    CASE url \in {"absent", "nonString"} -> "MISSING_URL"
      [] url = "blank"                   -> "EMPTY_URL"
      [] url = "unparseable"             -> "INVALID_FORMAT"
      [] url = "otherProtocol"           -> "INVALID_PROTOCOL"
      [] OTHER                           -> "valid"

\* what the unauthenticated HEAD/GET probe of the URL may give: a response
\* status (by class, with 401, 403 and 404 apart), or a failed fetch
ProbeOutcomes ==
    {"2xx", "3xx", "401", "403", "404", "4xx", "5xx", "timeout", "refused",
     "reset", "ssl", "failed"}

\* isAccessible: response.status >= 200 && response.status < 400
IsAccessible(probe) == probe \in {"2xx", "3xx"}

\* the URLValidationError validateURL throws for a probe that is not
\* accessible: its statusCode, code and (the beginning of its) message
AccessError(probe) ==
    CASE probe = "401" ->
           [status |-> 400, code |-> "NOT_ACCESSIBLE",
            message |-> "Authentication required"]
      [] probe = "403" ->
           [status |-> 400, code |-> "NOT_ACCESSIBLE",
            message |-> "Access forbidden"]
      [] probe = "404" ->
           [status |-> 400, code |-> "NOT_ACCESSIBLE",
            message |-> "Page not found"]
      [] probe = "5xx" ->
           [status |-> 502, code |-> "NOT_ACCESSIBLE",
            message |-> "Server error"]
      [] probe = "timeout" ->
           [status |-> 504, code |-> "TIMEOUT", message |-> "Request timeout"]
      [] probe = "refused" ->
           [status |-> 400, code |-> "CONNECTION_FAILED",
            message |-> "Cannot reach URL"]
      [] probe = "reset" ->
           [status |-> 400, code |-> "CONNECTION_RESET",
            message |-> "Connection was reset by the server"]
      [] probe = "ssl" ->
           [status |-> 400, code |-> "SSL_ERROR",
            message |-> "SSL/TLS certificate error"]
      [] probe = "failed" ->
           [status |-> 400, code |-> "ACCESS_ERROR",
            message |-> "Failed to access URL"]
      [] OTHER ->
           [status |-> 400, code |-> "NOT_ACCESSIBLE",
            message |-> "URL returned status"]

\* outcomes of checkURLAccessibility that make validateURL throw
AccessErrors ==
    { AccessError(probe) : probe \in {p \in ProbeOutcomes : ~IsAccessible(p)} }

\* statusCode of the PerformanceAnalysisError thrown for a code
StatusOf(code) ==
    CASE code = "NETWORK_ERROR" -> 502
      [] code = "TIMEOUT"       -> 408
      [] OTHER                  -> 500

\* if (!url) 400; validateURL(url): format check, then accessibility check;
\* a URLValidationError is answered with its status; otherwise
\* analyzePerformance is called
SvValidate(r) ==
    /\ lhPc[r] = "received"
    /\ IF svUrl[r] = "absent"
       THEN /\ svResponse' = [svResponse EXCEPT
                 ![r] = <<[status |-> 400, code |-> "MISSING_URL"]>>]
            /\ lhPc' = [lhPc EXCEPT ![r] = "responded"]
       ELSE IF ValidateURLFormat(svUrl[r]) # "valid"
       THEN /\ svResponse' = [svResponse EXCEPT
                 ![r] = <<[status |-> 400,
                           code |-> ValidateURLFormat(svUrl[r])]>>]
            /\ lhPc' = [lhPc EXCEPT ![r] = "responded"]
       ELSE \/ /\ lhPc' = [lhPc EXCEPT ![r] = "launch"]
               /\ UNCHANGED svResponse
            \/ /\ \E e \in AccessErrors :
                     svResponse' = [svResponse EXCEPT ![r] = <<e>>]
               /\ lhPc' = [lhPc EXCEPT ![r] = "responded"]
    /\ UNCHANGED <<lhBrowser, lhPort, lhCookies, lhAttached, lhOutcome, lhAuth,
                   lhBefore, lhHeaders, lhStorage, lhLoggedIn, svUrl, anVars,
                   fnVars>>

\* analyzePerformance returned or threw: res.json of the processed report,
\* or the error's status and code
SvRespond(r) ==
    /\ lhPc[r] = "done"
    /\ svResponse' = [svResponse EXCEPT
          ![r] = IF lhOutcome[r] = "ok"
                 THEN <<[status |-> 200, code |-> "success"]>>
                 ELSE <<[status |-> StatusOf(lhOutcome[r]),
                         code |-> lhOutcome[r]]>>]
    /\ lhPc' = [lhPc EXCEPT ![r] = "responded"]
    /\ UNCHANGED <<lhBrowser, lhPort, lhCookies, lhAttached, lhOutcome, lhAuth,
                   lhBefore, lhHeaders, lhStorage, lhLoggedIn, svUrl, anVars,
                   fnVars>>

\* requests arrive at the server; the handler passes auth and no callback
SvInit ==
    /\ lhPc = [r \in Requests |-> "received"]
    /\ lhBrowser = [r \in Requests |-> "null"]
    /\ lhPort = 0
    /\ lhCookies = [r \in Requests |-> {}]
    /\ lhAttached = [r \in Requests |-> 0]
    /\ lhOutcome = [r \in Requests |-> "running"]
    /\ lhAuth \in [Requests -> AuthKinds]
    /\ lhBefore = [r \in Requests |-> FALSE]
    /\ lhHeaders = [r \in Requests |-> {}]
    /\ lhStorage = [r \in Requests |-> {}]
    /\ lhLoggedIn = [r \in Requests |-> FALSE]
    /\ svUrl \in [Requests -> UrlKinds]
    /\ svResponse = [r \in Requests |-> <<>>]

SvNext ==
    \/ \E r \in Requests : SvValidate(r)
    \/ LhNext
    \/ \E r \in Requests : SvRespond(r)

----------------------------------------------------------------------------
(* The score calculator, src/unnamed/part_010.  Arguments are nullable; LCP,
   FCP and TTI are seconds, FID and TBT milliseconds, CLS a score, all in
   thousandths (2.5 s is 2500, 100 ms is 100000, 0.1 is 100). *)

Entry(d, st) == [deduction |-> d, status |-> st]

\* LCP scoring
ScoreLcp(lcp) ==
    IF ~IsNull(lcp)
    THEN IF Val(lcp) <= 2500 THEN Entry(0, "good")
         ELSE IF Val(lcp) <= 4000 THEN Entry(10, "needs-improvement")
         ELSE Entry(25, "poor")
    ELSE Entry(15, "missing")

\* the scoring of a missing FID with the penalty the other vitals carry
ScoreFidPenalized(fid) ==
    IF ~IsNull(fid)
    THEN IF Val(fid) <= 100000 THEN Entry(0, "good")
         ELSE IF Val(fid) <= 300000 THEN Entry(10, "needs-improvement")
         ELSE Entry(25, "poor")
    ELSE Entry(15, "missing")

\* FID scoring: null is acceptable
ScoreFid(fid) ==
    IF ~IsNull(fid)
    THEN IF Val(fid) <= 100000 THEN Entry(0, "good")
         ELSE IF Val(fid) <= 300000 THEN Entry(10, "needs-improvement")
         ELSE Entry(25, "poor")
    ELSE Entry(0, "not-applicable")

\* CLS scoring
ScoreCls(cls) ==
    IF ~IsNull(cls)
    THEN IF Val(cls) <= 100 THEN Entry(0, "good")
         ELSE IF Val(cls) <= 250 THEN Entry(10, "needs-improvement")
         ELSE Entry(25, "poor")
    ELSE Entry(15, "missing")

\* FCP scoring
ScoreFcp(fcp) ==
    IF ~IsNull(fcp)
    THEN IF Val(fcp) <= 1800 THEN Entry(0, "good")
         ELSE IF Val(fcp) <= 3000 THEN Entry(5, "needs-improvement")
         ELSE Entry(10, "poor")
    ELSE Entry(7, "missing")

\* TTI scoring: a value that is not above 0 is scored as missing
ScoreTti(tti) ==
    IF ~IsNull(tti) /\ Val(tti) > 0
    THEN IF Val(tti) <= 3800 THEN Entry(0, "good")
         ELSE IF Val(tti) <= 7300 THEN Entry(5, "needs-improvement")
         ELSE Entry(10, "poor")
    ELSE Entry(7, "missing")

\* TBT scoring
ScoreTbt(tbt) ==
    IF ~IsNull(tbt)
    THEN IF Val(tbt) <= 200000 THEN Entry(0, "good")
         ELSE IF Val(tbt) <= 600000 THEN Entry(2, "needs-improvement")
         ELSE Entry(5, "poor")
    ELSE Entry(3, "missing")

Min(a, b) == IF a <= b THEN a ELSE b
Max(a, b) == IF a >= b THEN a ELSE b

\* the deductions array, keyed by metric
Deductions(m, wv) ==
    [ lcp |-> ScoreLcp(wv.lcp), fid |-> ScoreFid(wv.fid),
      cls |-> ScoreCls(wv.cls), fcp |-> ScoreFcp(m.fcp),
      tti |-> ScoreTti(m.tti), tbt |-> ScoreTbt(m.tbt) ]

\* the score with every deduction applied except those of missing metrics
ScoreIgnoringMissing(m, wv) ==
    LET d == Deductions(m, wv)
        Ded(k) == IF d[k].status = "missing" THEN 0 ELSE d[k].deduction
        score == 100 - Ded("lcp") - Ded("fid") - Ded("cls") - Ded("fcp")
                     - Ded("tti") - Ded("tbt")
    IN  Max(0, Min(100, score))

\* finalScore = Math.max(0, Math.min(100, Math.round(score)))
CalculatePerformanceScore(m, wv) ==
    LET d == Deductions(m, wv)
        score == 100 - d.lcp.deduction - d.fid.deduction - d.cls.deduction
                     - d.fcp.deduction - d.tti.deduction - d.tbt.deduction
    IN  Max(0, Min(100, score))

\* the status shown with a web vital in the report
GetWebVitalStatus(metric, value) ==
    IF IsNull(value) THEN "unknown"
    ELSE CASE metric = "lcp" ->
                IF Val(value) <= 2500 THEN "good"
                ELSE IF Val(value) <= 4000 THEN "needs-improvement"
                ELSE "poor"
           [] metric = "fid" ->
                IF Val(value) <= 100000 THEN "good"
                ELSE IF Val(value) <= 300000 THEN "needs-improvement"
                ELSE "poor"
           [] metric = "cls" ->
                IF Val(value) <= 100 THEN "good"
                ELSE IF Val(value) <= 250 THEN "needs-improvement"
                ELSE "poor"
           [] OTHER -> "unknown"

\* values handed to the calculator: null, both sides of each threshold
LcpSeconds == {Null, Some(2000), Some(2500), Some(3500), Some(4000), Some(6100)}
FidMillis == {Null, Some(0), Some(100000), Some(200000), Some(300000),
              Some(500000)}
ClsScores == {Null, Some(0), Some(100), Some(150), Some(250), Some(300)}
FcpSeconds == {Null, Some(1200), Some(1800), Some(2500), Some(3000), Some(4500)}
TtiSeconds == {Null, Some(3000), Some(3800), Some(5000), Some(7300),
               Some(10000)}
TbtMillis == {Null, Some(0), Some(200000), Some(400000), Some(600000),
              Some(800000)}

ScoreInputs ==
    [ metrics : [fcp : FcpSeconds, tti : TtiSeconds, tbt : TbtMillis],
      webVitals : [lcp : LcpSeconds, fid : FidMillis, cls : ClsScores] ]

\* processReport: the score, the deductions it logs and the vitals' statuses
ProcessReportScore ==
    /\ scoreIn # <<>> /\ scoreOut = <<>>
    /\ LET m == scoreIn[1].metrics
           wv == scoreIn[1].webVitals
       IN  scoreOut' =
             << [ score |-> CalculatePerformanceScore(m, wv),
                  deductions |-> Deductions(m, wv),
                  status |-> [k \in {"lcp", "fid", "cls"} |->
                                 GetWebVitalStatus(k, wv[k])] ] >>
    /\ UNCHANGED <<scoreIn, normIn, normOut, urlIn, urlOut, issuesIn,
                   issuesOut, reportIn, reportOut,
                   lhrIn, lhrOut, submitIn, submitOut, anVars, lhVars>>

----------------------------------------------------------------------------
(* Timestamp normalization of the playwright analyzer, src/unnamed/part_012:
   the timing page.evaluate on one navigation entry, then calculateMetrics.
   Times are in thousandths of a millisecond. *)

\* raw values of a timing field: absent, zero, negative, relative values on
\* both sides of the ten minute limit, and absolute clock readings
RawTimestamps ==
    {Null, Some(0), Some(-5000), Some(1), Some(1500000), Some(600000000),
     Some(600000001), Some(1000000000), Some(1001500000), Some(1700000000)}

\* perf.navigationStart is absent from a navigation timing entry and an
\* absolute clock reading in the legacy timing object
RawNavigationStarts == {Null, Some(1000000000)}

RawFetchStarts ==
    {Null, Some(0), Some(2000), Some(900000000), Some(1000000000)}

PerfEntries ==
    [ navigationStart : RawNavigationStarts, fetchStart : RawFetchStarts,
      domInteractive : RawTimestamps ]

\* navigationStart = perf.navigationStart || perf.fetchStart || 0
NavigationStart(perf) ==
    Val(OrElse(perf.navigationStart, OrElse(perf.fetchStart, Some(0))))

\* the timing object of one entry and the TTI calculateMetrics derives
TimingEvaluate ==
    /\ normIn # <<>> /\ normOut = <<>>
    /\ LET perf == normIn[1]
           navigationStart == NavigationStart(perf)
           domInteractive ==
               GetRelativeTime(perf.domInteractive, navigationStart)
       IN  normOut' = << [ navigationStart |-> navigationStart,
                           domInteractive |-> domInteractive,
                           tti |-> CalcTti(domInteractive) ] >>
    /\ UNCHANGED <<normIn, scoreIn, scoreOut, urlIn, urlOut, issuesIn,
                   issuesOut, reportIn, reportOut,
                   lhrIn, lhrOut, submitIn, submitOut, anVars, lhVars>>

----------------------------------------------------------------------------
(* Redirect detection of the lighthouse report processor,
   src/unnamed/part_011.  A URL is its protocol, host and path as written;
   host and path are sequences of characters. *)

Lower(c) == CASE c = "E" -> "e" [] c = "P" -> "p" [] OTHER -> c

\* String.prototype.toLowerCase
ToLowerCase(str) == [i \in 1..Len(str) |-> Lower(str[i])]

\* str.replace(/\/$/, ''): one trailing slash removed
StripTrailingSlash(str) ==
    IF Len(str) > 0 /\ str[Len(str)] = "/"
    THEN SubSeq(str, 1, Len(str) - 1) ELSE str

\* new URL(url): the host is lowercased, an empty path becomes "/"
ParseUrl(url) ==
    [ hostname |-> ToLowerCase(url.host),
      pathname |-> IF url.path = <<>> THEN <<"/">> ELSE url.path ]

\* normalize without the toLowerCase() call
NormalizeCaseSensitive(url) ==
    LET parsed == ParseUrl(url)
    IN  StripTrailingSlash(parsed.hostname \o parsed.pathname)

\* normalize inside urlsMatch
Normalize(url) ==
    LET parsed == ParseUrl(url)
    IN  ToLowerCase(StripTrailingSlash(parsed.hostname \o parsed.pathname))

UrlsMatch(url1, url2) == Normalize(url1) = Normalize(url2)

Hosts == { <<"e", "x">>, <<"E", "x">>, <<"o", "x">> }
Paths == { <<>>, <<"/">>, <<"/", "p">>, <<"/", "P">>, <<"/", "p", "/">>,
           <<"/", "P", "/">>, <<"/", "q">>, <<"/", "p", "/", "/">> }
Urls == [protocol : {"http:", "https:"}, host : Hosts, path : Paths]

\* what processReport receives: the URL the server validated (originalUrl,
\* unset when the caller did not attach it), Lighthouse's requestedUrl and
\* finalUrl, and the analyzer's verifiedFinalUrl: Lighthouse's final URL by
\* default, or the URL of the screenshot page, which is the requested URL
\* when the authentication was verified
RedirectInputs ==
    UNION { UNION { { [originalUrl |-> o, requestedUrl |-> u,
                       finalUrl |-> f, verifiedFinalUrl |-> v] :
                        o \in {Null, <<u>>}, v \in {u, f} } :
                    f \in Urls } :
            u \in {x \in Urls : x.protocol = "https:"} }

\* processReport: the redirect check
ProcessReportRedirect ==
    /\ urlIn # <<>> /\ urlOut = <<>>
    /\ LET finalUrl == urlIn[1].finalUrl
           effectiveOriginalUrl ==
               IF IsNull(urlIn[1].originalUrl) THEN urlIn[1].requestedUrl
               ELSE Val(urlIn[1].originalUrl)
           urlRedirected == ~UrlsMatch(effectiveOriginalUrl, finalUrl)
       IN  urlOut' = << [ url |-> finalUrl,
                          originalUrl |-> effectiveOriginalUrl,
                          urlRedirect |->
                              IF urlRedirected
                              THEN Some([from |-> effectiveOriginalUrl,
                                         to |-> finalUrl])
                              ELSE Null ] >>
    /\ UNCHANGED <<urlIn, scoreIn, scoreOut, normIn, normOut, issuesIn,
                   issuesOut, reportIn, reportOut,
                   lhrIn, lhrOut, submitIn, submitOut, anVars, lhVars>>

----------------------------------------------------------------------------
(* The issue detector, src/unnamed/part_010 identifyIssues.  Sizes are bytes,
   durations milliseconds, metrics.fcp is read as seconds (in thousandths). *)

\* Math.round(n / d) for d > 0
Round(n, d) == (2 * n + d) \div (2 * d)

RECURSIVE SumOf(_, _)
\* reduce((sum, file) => sum + file[field], 0)
SumOf(files, field) ==
    IF files = <<>> THEN 0
    ELSE Head(files)[field] + SumOf(Tail(files), field)

\* requests = rawRequests.map(...): size and duration default to 0
NormalizeRequests(rawRequests) ==
    [ i \in 1..Len(rawRequests) |->
        [ resourceType |-> rawRequests[i].resourceType,
          size |-> IF Truthy(rawRequests[i].size)
                   THEN Val(rawRequests[i].size) ELSE 0,
          duration |-> IF Truthy(rawRequests[i].duration)
                       THEN Val(rawRequests[i].duration) ELSE 0 ] ]

Issue(id, severity, bytes, time, files) ==
    [ id |-> id, severity |-> severity,
      savings |-> [bytes |-> bytes, time |-> time], files |-> files ]

IsStylesheet(req) == req.resourceType = "stylesheet"
IsScript(req) == req.resourceType = "script"

\* 1. large JavaScript bundles
LargeJavascriptBundles(requests) ==
    LET jsFiles == SelectSeq(requests, LAMBDA r : IsScript(r) /\ r.size > 0)
        largeJsFiles == SelectSeq(jsFiles, LAMBDA f : f.size > 200000)
        totalSize == SumOf(largeJsFiles, "size")
    IN  IF Len(largeJsFiles) > 0
        THEN << Issue("large-javascript-bundles",
                      IF totalSize > 1000000 THEN "critical" ELSE "warning",
                      Round(totalSize * 3, 10), Round(totalSize, 1000),
                      [i \in 1..Len(largeJsFiles) |-> largeJsFiles[i].size]) >>
        ELSE <<>>

\* 2. unoptimized images: the filter looks for resource type 'img'
UnoptimizedImages(requests) ==
    LET imageFiles == SelectSeq(requests,
                          LAMBDA r : r.resourceType = "img" /\ r.size > 0)
        largeImages == SelectSeq(imageFiles, LAMBDA f : f.size > 100000)
        totalSize == SumOf(largeImages, "size")
    IN  IF Len(largeImages) > 0
        THEN << Issue("unoptimized-images",
                      IF totalSize > 500000 THEN "warning" ELSE "info",
                      Round(totalSize * 4, 10), Round(totalSize * 3, 2000),
                      [i \in 1..Len(largeImages) |-> largeImages[i].size]) >>
        ELSE <<>>

\* 3. render-blocking resources
RenderBlockingResources(requests) ==
    LET renderBlocking ==
            SelectSeq(requests, LAMBDA r : (IsStylesheet(r) \/ IsScript(r))
                                           /\ r.duration > 200)
        totalDelay == SumOf(renderBlocking, "duration")
    IN  IF Len(renderBlocking) > 0
        THEN << Issue("render-blocking-resources",
                      IF totalDelay > 1000 THEN "warning" ELSE "info",
                      0, Round(totalDelay, 2),
                      [i \in 1..Len(renderBlocking) |->
                          renderBlocking[i].size]) >>
        ELSE <<>>

\* 4. large CSS files
LargeCssFiles(requests) ==
    LET cssFiles == SelectSeq(requests,
                        LAMBDA r : IsStylesheet(r) /\ r.size > 0)
        largeCssFiles == SelectSeq(cssFiles, LAMBDA f : f.size > 50000)
        totalSize == SumOf(largeCssFiles, "size")
    IN  IF Len(largeCssFiles) > 0
        THEN << Issue("large-css-files",
                      IF totalSize > 200000 THEN "warning" ELSE "info",
                      Round(totalSize, 5), Round(totalSize, 1250),
                      [i \in 1..Len(largeCssFiles) |->
                          largeCssFiles[i].size]) >>
        ELSE <<>>

\* the slow response estimate taken for every measured FCP
SlowServerResponseUnguarded(mtr) ==
    IF Truthy(mtr.fcp)
    THEN << Issue("slow-server-response",
                  IF Val(mtr.fcp) > 3000 THEN "warning" ELSE "info",
                  0, Val(mtr.fcp) - 1800, <<>>) >>
    ELSE <<>>

\* 5. slow server response: metrics.fcp && metrics.fcp > 1.8
SlowServerResponse(mtr) ==
    IF Truthy(mtr.fcp) /\ Val(mtr.fcp) > 1800
    THEN << Issue("slow-server-response",
                  IF Val(mtr.fcp) > 3000 THEN "warning" ELSE "info",
                  0, Val(mtr.fcp) - 1800, <<>>) >>
    ELSE <<>>

\* the request rule with the threshold itself included
TooManyRequestsInclusive(net) ==
    IF net.requestCount >= 50
    THEN << Issue("too-many-requests",
                  IF net.requestCount > 100 THEN "warning" ELSE "info",
                  0, (net.requestCount - 50) * 10, <<>>) >>
    ELSE <<>>

\* 6. too many requests
TooManyRequests(net) ==
    IF net.requestCount > 50
    THEN << Issue("too-many-requests",
                  IF net.requestCount > 100 THEN "warning" ELSE "info",
                  0, (net.requestCount - 50) * 10, <<>>) >>
    ELSE <<>>

\* 7. large page size: totalSizeMB = totalSize / (1024 * 1024) > 2
LargePageSize(net) ==
    IF net.totalSize > 2 * (1024 * 1024)
    THEN << Issue("large-page-size",
                  IF net.totalSize > 5 * (1024 * 1024)
                  THEN "warning" ELSE "info",
                  Round(net.totalSize, 5),
                  Round(net.totalSize * 200, 1024 * 1024), <<>>) >>
    ELSE <<>>

IdentifyIssues(performanceData0) ==
    LET network0 == performanceData0.network
        requests == NormalizeRequests(network0.requests)
    IN  LargeJavascriptBundles(requests) \o UnoptimizedImages(requests)
        \o RenderBlockingResources(requests) \o LargeCssFiles(requests)
        \o SlowServerResponse(performanceData0.metrics)
        \o TooManyRequests(network0) \o LargePageSize(network0)

\* number of network records handed to the issue detector
MaxRequests == 2

\* a record as the collector leaves it: size is undefined when no response
\* was paired with the request
RawRequests ==
    [ resourceType : {"script", "stylesheet", "image"},
      size : {Null, Some(50000), Some(50001), Some(200000), Some(200001)},
      duration : {Some(200), Some(201)} ]

RequestLists == UNION { [1..n -> RawRequests] : n \in 0..MaxRequests }

\* metrics.fcp: unset, 1.0, 1.801, and a value on the millisecond scale
IssueFcps == {Null, Some(1000), Some(1801), Some(1200000)}

IssueInputs ==
    [ network : [ requests : RequestLists, requestCount : {50, 51},
                  totalSize : {2 * 1024 * 1024, 2 * 1024 * 1024 + 1} ],
      metrics : [ fcp : IssueFcps ] ]

\* processReport: issues = identifyIssues(rawData)
ProcessReportIssues ==
    /\ issuesIn # <<>> /\ issuesOut = <<>>
    /\ issuesOut' = << IdentifyIssues(issuesIn[1]) >>
    /\ UNCHANGED <<issuesIn, scoreIn, scoreOut, normIn, normOut, urlIn,
                   urlOut, reportIn, reportOut,
                   lhrIn, lhrOut, submitIn, submitOut, anVars, lhVars>>

----------------------------------------------------------------------------
(* processReport of the playwright generation, src/unnamed/part_010, applied
   to what the metrics collector (src/unnamed/part_012) returns.  The
   collector reports FCP and LCP in milliseconds, TTI in seconds, FID in
   milliseconds; all in thousandths. *)

\* network records as the collector leaves them: playwright's resource
\* types, the content-length of the paired response or no size at all
CollectedRequests ==
    [ resourceType : {"script", "image"},
      size : {Null, Some(100000), Some(150000)},
      duration : {Some(250)} ]

CollectedRequestLists ==
    UNION { [1..n -> CollectedRequests] : n \in 0..MaxRequests }

RECURSIVE SumSizeOf(_)
\* performanceData.network.totalSize += bodySize for every paired response
SumSizeOf(reqs) ==
    IF reqs = <<>> THEN 0
    ELSE (IF IsNull(Head(reqs).size) THEN 0 ELSE Val(Head(reqs).size))
         + SumSizeOf(Tail(reqs))

\* the object analyzePerformance returns: fcp is a paint time within
\* (0, 60000) ms or null, tbt is always 0
CollectorOutputs ==
    { [ metrics |-> [fcp |-> fcp, tti |-> tti, tbt |-> Some(0)],
        webVitals |-> [lcp |-> lcp, fid |-> fid, cls |-> cls],
        network |-> [ requests |-> reqs, requestCount |-> Len(reqs),
                      totalSize |-> SumSizeOf(reqs) ] ] :
        fcp \in {Null, Some(600000), Some(1800000), Some(2500000)},
        tti \in {Null, Some(1500)},
        lcp \in {Null, Some(1500000), Some(3000000)},
        fid \in {Null, Some(50000)},
        cls \in {Some(0), Some(150)},
        reqs \in CollectedRequestLists }

\* value / 1000 when the value is set
ToSeconds(value) ==
    IF ~IsNull(value) THEN Some(Val(value) \div 1000) ELSE value

\* processReport(rawData)
ProcessReport ==
    /\ reportIn # <<>> /\ reportOut = <<>>
    /\ LET rawData == reportIn[1]
           normalizedMetrics ==
               [rawData.metrics EXCEPT !.fcp = ToSeconds(@)]
           normalizedWebVitals ==
               [rawData.webVitals EXCEPT !.lcp = ToSeconds(@)]
       IN  reportOut' =
             << [ score |-> CalculatePerformanceScore(normalizedMetrics,
                                                      normalizedWebVitals),
                  webVitals |->
                      [k \in {"lcp", "fid", "cls"} |->
                          [ value |-> normalizedWebVitals[k],
                            status |-> GetWebVitalStatus(
                                           k, normalizedWebVitals[k]) ]],
                  metrics |->
                      [ fcp |-> normalizedMetrics.fcp,
                        tti |-> IF Truthy(normalizedMetrics.tti)
                                   /\ Val(normalizedMetrics.tti) > 0
                                THEN normalizedMetrics.tti ELSE Null,
                        tbt |-> normalizedMetrics.tbt ],
                  issues |-> IdentifyIssues(rawData),
                  network |-> [ requestCount |-> rawData.network.requestCount,
                                totalSize |-> rawData.network.totalSize,
                                resources |-> rawData.network.requests ] ] >>
    /\ UNCHANGED <<reportIn, scoreIn, scoreOut, normIn, normOut, urlIn,
                   urlOut, issuesIn, issuesOut, lhrIn, lhrOut, submitIn, submitOut, anVars,
                   lhVars>>

----------------------------------------------------------------------------
(* Issues of the lighthouse generation: extractLighthouseData of
   performanceAnalyzer.js turns failing audits into opportunities and
   diagnostics with their resource items, categorizeIssues of the report
   processor (src/unnamed/part_011) turns those into the report's issues.
   An audit score is in hundredths (1 is 100). *)

\* detail items an audit may list
MaxItems == 12

\* resource items kept per audit: items.slice(0, 10)
MaxResourceItems == 10

\* audits looked at, in the order of opportunityAudits
AuditIds == <<"unused-javascript", "dom-size">>

\* audit.details.items with n entries; every entry has a url, or only the
\* odd ones have
DetailItems(n, pat) ==
    [i \in 1..n |->
        [ url |-> IF pat = "all" \/ i % 2 = 1 THEN Some(i) ELSE Null,
          wastedBytes |-> 1000 * i,
          transferSize |-> 2000 * i ]]

ItemLists == {DetailItems(n, pat) : n \in 0..MaxItems, pat \in {"all", "odd"}}

\* the audit under study, and the other audit of the run (<<>>: not in lhr)
FirstAudits ==
    { <<[score |-> sc, overallSavingsBytes |-> b, overallSavingsMs |-> t,
         items |-> it]>> :
        sc \in {Null, Some(50), Some(100)}, b \in {0, 150000},
        t \in {0, 600, 2500}, it \in ItemLists }

SecondAudits ==
    { <<>>,
      <<[score |-> Some(0), overallSavingsBytes |-> 0, overallSavingsMs |-> 0,
         items |-> DetailItems(1, "all")]>>,
      <<[score |-> Some(0), overallSavingsBytes |-> 0,
         overallSavingsMs |-> 1000, items |-> DetailItems(2, "odd")]>> }

LhrInputs ==
    { [id \in {AuditIds[1], AuditIds[2]} |->
          IF id = AuditIds[1] THEN a ELSE b] :
        a \in FirstAudits, b \in SecondAudits }

\* resourceItems: the first ten detail items, those with a url
ResourceItems(audit) ==
    LET items == audit.items
        firstItems == SubSeq(items, 1, Min(Len(items), MaxResourceItems))
    IN  SelectSeq([i \in 1..Len(firstItems) |->
                      [ url |-> firstItems[i].url,
                        wastedBytes |-> firstItems[i].wastedBytes,
                        transferSize |-> firstItems[i].transferSize ]],
                  LAMBDA resource : ~IsNull(resource.url))

\* audit && audit.score !== null && audit.score < 1
Failing(audits, id) ==
    /\ audits[id] # <<>>
    /\ ~IsNull(audits[id][1].score)
    /\ Val(audits[id][1].score) < 100

\* the item pushed for a failing audit
ExtractItem(audits, id) ==
    LET audit == audits[id][1]
    IN  [ id |-> id, score |-> audit.score,
          savings |-> [ bytes |-> audit.overallSavingsBytes,
                        time |-> audit.overallSavingsMs ],
          items |-> ResourceItems(audit) ]

HasSavings(audits, id) ==
    \/ audits[id][1].overallSavingsMs > 0
    \/ audits[id][1].overallSavingsBytes > 0

RECURSIVE ExtractWhere(_, _, _)
\* the items of the failing audits of ids that do (or do not) have savings
ExtractWhere(audits, ids, withSavings) ==
    IF ids = <<>> THEN <<>>
    ELSE LET rest == ExtractWhere(audits, Tail(ids), withSavings)
         IN  IF Failing(audits, Head(ids))
                /\ HasSavings(audits, Head(ids)) = withSavings
             THEN <<ExtractItem(audits, Head(ids))>> \o rest
             ELSE rest

RECURSIVE SortBySavedTime(_)
\* opportunities.sort((a, b) => b.savings.time - a.savings.time)
SortBySavedTime(opps) ==
    IF opps = <<>> THEN <<>>
    ELSE LET sorted == SortBySavedTime(Tail(opps))
             x == Head(opps)
             before == SelectSeq(sorted,
                           LAMBDA y : y.savings.time > x.savings.time)
             after == SelectSeq(sorted,
                           LAMBDA y : y.savings.time <= x.savings.time)
         IN  before \o <<x>> \o after

\* the opportunities and diagnostics of extractLighthouseData
ExtractLighthouseData(audits) ==
    [ opportunities |-> SortBySavedTime(ExtractWhere(audits, AuditIds, TRUE)),
      diagnostics |-> ExtractWhere(audits, AuditIds, FALSE) ]

\* severity of an opportunity by its savings
Severity(opp) ==
    IF opp.savings.time > 2000 \/ opp.savings.bytes > 500000 THEN "critical"
    ELSE IF opp.savings.time > 500 \/ opp.savings.bytes > 100000
    THEN "warning"
    ELSE "info"

\* categorizeIssues: one issue per opportunity, then one per diagnostic
CategorizeIssues(opportunities, diagnostics) ==
    [i \in 1..Len(opportunities) |->
        [ id |-> opportunities[i].id,
          severity |-> Severity(opportunities[i]),
          savings |-> [ time |-> opportunities[i].savings.time,
                        bytes |-> opportunities[i].savings.bytes ],
          score |-> opportunities[i].score ]]
    \o
    [i \in 1..Len(diagnostics) |->
        [ id |-> diagnostics[i].id,
          severity |-> "info",
          savings |-> [ time |-> 0, bytes |-> 0 ],
          score |-> diagnostics[i].score ]]

\* extractLighthouseData(lhr), then processReport's categorizeIssues call
ProcessReportLighthouse ==
    /\ lhrIn # <<>> /\ lhrOut = <<>>
    /\ LET data == ExtractLighthouseData(lhrIn[1])
       IN  lhrOut' =
             << [ opportunities |-> data.opportunities,
                  diagnostics |-> data.diagnostics,
                  issues |-> CategorizeIssues(data.opportunities,
                                              data.diagnostics) ] >>
    /\ UNCHANGED <<lhrIn, submitIn, submitOut, scoreIn, scoreOut, normIn, normOut, urlIn, urlOut,
                   issuesIn, issuesOut, reportIn, reportOut, anVars, lhVars>>

----------------------------------------------------------------------------
(* The Analyze modal of the frontend up to the request body: handleSubmit of
   AnalyzeModal.jsx, handleAnalyze of the landing page (src/unnamed/part_001)
   and analyzeURL of services/api.js.  A string is a sequence of pieces; a
   JavaScript value that may be a string or an object carries its type. *)

Str(s) == [type |-> "string", value |-> s]
Obj(o) == [type |-> "object", value |-> o]

\* String.prototype.trim on a sequence of pieces, " " being white space
RECURSIVE TrimStart(_)
TrimStart(s) ==
    IF s # <<>> /\ Head(s) = " " THEN TrimStart(Tail(s)) ELSE s

RECURSIVE TrimEnd(_)
TrimEnd(s) ==
    IF s # <<>> /\ s[Len(s)] = " " THEN TrimEnd(SubSeq(s, 1, Len(s) - 1))
    ELSE s

Trim(s) == TrimEnd(TrimStart(s))

\* /^https?:\/\//i.test(s)
HasScheme(s) ==
    s # <<>> /\ Head(s) \in {"http://", "https://", "HTTP://", "HTTPS://"}

\* what the user typed into the URL field
EnteredUrls ==
    { <<>>, <<" ">>, <<"ex.com">>, <<" ", "ex.com", " ">>,
      <<"https://", "ex.com">>, <<"http://", "ex.com">>,
      <<"HTTPS://", "ex.com">>, <<"ex.com", "/", "http://">> }

\* the parsed session export: absent, or origin with optional cookies
FormattedSessions ==
    { <<>> } \cup
    { <<[origin |-> "https://ex.com", cookies |-> c]>> :
        c \in {"undefined", "", "sid=1"} }

\* the state of the modal when the form is submitted
ModalStates ==
    [ url : EnteredUrls, deviceType : {"desktop", "mobile"},
      networkThrottling : {"wifi", "4g", "3g"}, authEnabled : BOOLEAN,
      formattedData : FormattedSessions ]

\* authData of handleSubmit: null unless authEnabled && formattedData
AuthDataOf(modal) ==
    IF modal.authEnabled /\ modal.formattedData # <<>>
    THEN << [ type |-> "session",
              origin |-> modal.formattedData[1].origin,
              cookies |-> IF modal.formattedData[1].cookies = "undefined"
                          THEN ""
                          ELSE modal.formattedData[1].cookies ] >>
    ELSE <<>>

\* formattedUrl of handleSubmit
FormattedUrl(url) ==
    IF HasScheme(Trim(url)) THEN Trim(url) ELSE <<"https://">> \o Trim(url)

\* the object handleSubmit passes to onAnalyze
HandleSubmit(modal) ==
    [ url |-> Str(FormattedUrl(modal.url)),
      deviceType |-> modal.deviceType,
      networkThrottling |-> modal.networkThrottling,
      authData |-> AuthDataOf(modal) ]

\* a destructured property with its default
Destructure(opts, key, default) ==
    IF key \in DOMAIN opts THEN opts[key] ELSE default

\* analyzeURL(url, options = {}): the body posted to /api/analyze
AnalyzeURL(url, opts) ==
    LET deviceType == Destructure(opts, "deviceType", "desktop")
        networkThrottling == Destructure(opts, "networkThrottling", "4g")
        auth == Destructure(opts, "auth", <<>>)
        requestBody == [ url |-> url, deviceType |-> deviceType,
                         networkThrottling |-> networkThrottling ]
    IN  IF auth # <<>> THEN requestBody @@ [auth |-> auth[1]]
        ELSE requestBody

\* handleAnalyze(options): analyzeURL(options), one argument; the second
\* parameter takes its default {}
HandleAnalyze(opts) == AnalyzeURL(Obj(opts), <<>>)

\* the form is submitted: no request for a blank URL, else the body posted
SubmitAnalyzeModal ==
    /\ submitIn # <<>> /\ submitOut = <<>>
    /\ LET modal == submitIn[1]
       IN  submitOut' =
             IF Trim(modal.url) = <<>> THEN << [sent |-> FALSE] >>
             ELSE << [ sent |-> TRUE,
                       body |-> HandleAnalyze(HandleSubmit(modal)) ] >>
    /\ UNCHANGED <<submitIn, scoreIn, scoreOut, normIn, normOut, urlIn, urlOut,
                   issuesIn, issuesOut, reportIn, reportOut, lhrIn, lhrOut,
                   anVars, lhVars>>

----------------------------------------------------------------------------
(* Idle values of the parts a specification does not exercise *)

LhIdle ==
    /\ lhPc = [r \in Requests |-> "off"]
    /\ lhBrowser = [r \in Requests |-> "null"]
    /\ lhPort = 0
    /\ lhCookies = [r \in Requests |-> {}]
    /\ lhAttached = [r \in Requests |-> 0]
    /\ lhOutcome = [r \in Requests |-> "running"]
    /\ lhAuth = [r \in Requests |-> "none"]
    /\ lhBefore = [r \in Requests |-> FALSE]
    /\ lhHeaders = [r \in Requests |-> {}]
    /\ lhStorage = [r \in Requests |-> {}]
    /\ lhLoggedIn = [r \in Requests |-> FALSE]
    /\ svUrl = [r \in Requests |-> "wellformed"]
    /\ svResponse = [r \in Requests |-> <<>>]

ScoreIdle == scoreIn = <<>> /\ scoreOut = <<>>
NormIdle == normIn = <<>> /\ normOut = <<>>
UrlIdle == urlIn = <<>> /\ urlOut = <<>>
IssuesIdle == issuesIn = <<>> /\ issuesOut = <<>>
ReportIdle == reportIn = <<>> /\ reportOut = <<>>
LhrIdle == lhrIn = <<>> /\ lhrOut = <<>>
SubmitIdle == submitIn = <<>> /\ submitOut = <<>>
FnIdle ==
    /\ ScoreIdle /\ NormIdle /\ UrlIdle /\ IssuesIdle /\ ReportIdle /\ LhrIdle
    /\ SubmitIdle

----------------------------------------------------------------------------
(* Specification of one playwright analysis *)

Init == AnInit /\ LhIdle /\ FnIdle
Next == AnNext
Spec == Init /\ [][Next]_vars

----------------------------------------------------------------------------
(* Specification of the LCP stabilization loop of one analysis: the page
   has loaded, and between two samples it may emit any number of further
   largest-contentful-paint entries *)

\* the analysis as the network idle wait leaves it
LoopInit ==
    /\ pc = "lcpLoop"
    /\ browser = "open" /\ context = "open" /\ page = "open"
    /\ closeCalls = {}
    /\ listening = TRUE /\ observers = TRUE
    /\ objs = <<>> /\ networkRequests = [u \in URLs |-> 0]
    /\ keyOrder = <<>> /\ network = NoNetwork
    /\ loopI = 0 /\ lastLcpValue = Null /\ stableCount = 0
    /\ vitals = <<>> /\ metrics = <<>>
    /\ events = 0
    /\ pageLcp \in {0, 1} /\ pageFcp = Null /\ pageFid = Null /\ pageCls = 0
    /\ observed = <<>>
    /\ performanceData = <<>>
    /\ outcome = "running"
    /\ \E o \in {"wifi", "4g"} :
          /\ options = [networkThrottling |-> o]
          /\ throttled = IF o = "wifi" THEN "no" ELSE "applied"
    /\ \E g \in GotoDurations, d \in NetworkIdleDurations : elapsed = g + d
    /\ sampled = NoSamples

LoopNext ==
    \/ \E k \in 0..MaxLoopEntries : LcpSampleOf(k)
    \/ LcpLoopEnd
    \/ FinalWait

InitLoop == LoopInit /\ LhIdle /\ FnIdle
SpecLoop == InitLoop /\ [][LoopNext]_vars

\* the timers and the page.evaluate calls of the loop do complete
SpecLoopFair == SpecLoop /\ WF_vars(LoopNext)

----------------------------------------------------------------------------
(* Specification of two concurrent lighthouse analyses *)

InitLH == LhInit /\ AnIdle /\ FnIdle
SpecLH == InitLH /\ [][LhNext]_vars

----------------------------------------------------------------------------
(* Specification of two requests handled by the server *)

InitServer == SvInit /\ AnIdle /\ FnIdle
SpecServer == InitServer /\ [][SvNext]_vars

----------------------------------------------------------------------------
(* Specification of the score calculator applied to one report *)

InitScore ==
    /\ scoreIn \in {<<x>> : x \in ScoreInputs}
    /\ scoreOut = <<>>
    /\ NormIdle /\ UrlIdle /\ IssuesIdle /\ AnIdle /\ LhIdle /\ ReportIdle
    /\ LhrIdle /\ SubmitIdle
SpecScore == InitScore /\ [][ProcessReportScore]_vars

----------------------------------------------------------------------------
(* Specification of the timestamp normalization of one navigation entry *)

InitNorm ==
    /\ normIn \in {<<x>> : x \in PerfEntries}
    /\ normOut = <<>>
    /\ ScoreIdle /\ UrlIdle /\ IssuesIdle /\ AnIdle /\ LhIdle /\ ReportIdle
    /\ LhrIdle /\ SubmitIdle
SpecNorm == InitNorm /\ [][TimingEvaluate]_vars

----------------------------------------------------------------------------
(* Specification of the redirect check of one report *)

InitUrl ==
    /\ urlIn \in {<<x>> : x \in RedirectInputs}
    /\ urlOut = <<>>
    /\ ScoreIdle /\ NormIdle /\ IssuesIdle /\ AnIdle /\ LhIdle /\ ReportIdle
    /\ LhrIdle /\ SubmitIdle
SpecUrl == InitUrl /\ [][ProcessReportRedirect]_vars

----------------------------------------------------------------------------
(* Specification of the issue detector applied to one analysis result *)

InitIssues ==
    /\ issuesIn \in {<<x>> : x \in IssueInputs}
    /\ issuesOut = <<>>
    /\ ScoreIdle /\ NormIdle /\ UrlIdle /\ AnIdle /\ LhIdle /\ ReportIdle
    /\ LhrIdle /\ SubmitIdle
SpecIssues == InitIssues /\ [][ProcessReportIssues]_vars

----------------------------------------------------------------------------
(* Specification of the report built from one result of the collector *)

InitReport ==
    /\ reportIn \in {<<x>> : x \in CollectorOutputs}
    /\ reportOut = <<>>
    /\ ScoreIdle /\ NormIdle /\ UrlIdle /\ IssuesIdle /\ AnIdle /\ LhIdle
    /\ LhrIdle /\ SubmitIdle
SpecReport == InitReport /\ [][ProcessReport]_vars

----------------------------------------------------------------------------
(* Specification of the issues built from one lighthouse result *)

InitLhr ==
    /\ lhrIn \in {<<x>> : x \in LhrInputs}
    /\ lhrOut = <<>>
    /\ ScoreIdle /\ NormIdle /\ UrlIdle /\ IssuesIdle /\ ReportIdle
    /\ AnIdle /\ LhIdle /\ SubmitIdle
SpecLhr == InitLhr /\ [][ProcessReportLighthouse]_vars

----------------------------------------------------------------------------
(* Specification of one submit of the Analyze modal *)

InitSubmit ==
    /\ submitIn \in {<<x>> : x \in ModalStates}
    /\ submitOut = <<>>
    /\ ScoreIdle /\ NormIdle /\ UrlIdle /\ IssuesIdle /\ ReportIdle
    /\ LhrIdle /\ AnIdle /\ LhIdle
SpecSubmit == InitSubmit /\ [][SubmitAnalyzeModal]_vars

----------------------------------------------------------------------------
(* Properties of two concurrent lighthouse analyses (SpecLH) *)

\* C1: two analyses that run concurrently each use their own browser: no
\* cookie of one request is written into the other's browser, and Lighthouse
\* of one request never attaches to the browser the other request launched.
ConcurrentAnalysesIsolated ==
    \A r \in Requests :
        /\ lhAttached[r] \in {0, r}
        /\ lhCookies[r] \subseteq {r}

----------------------------------------------------------------------------
(* Properties of one playwright analysis (Spec) *)

Completed == pc = "done"

\* C2: once the browser was launched, the teardown has been executed by the
\* time the analysis call completes, on every exit path (success, timeout,
\* navigation failure, other rejection): close was called on the page when
\* one exists and on the browser, and a browser that closed left no context
\* or page of the analysis open.
TeardownOnEveryExit ==
    (Completed /\ browser # "null") =>
        /\ "browser" \in closeCalls
        /\ (page # "null" => "page" \in closeCalls)
        /\ (browser = "closed" => (context # "open" /\ page # "open"))

\* an analysis that timed out during navigation and was torn down
TeardownAfterTimeout ==
    /\ Completed
    /\ outcome = "TIMEOUT"
    /\ closeCalls = {"page", "browser"}
    /\ browser = "closed" /\ context = "closed" /\ page = "closed"

Metrics == {"lcp", "fid", "cls", "fcp", "tti", "tbt"}

\* the value the analysis reports for a metric
Reported(m) ==
    IF m \in {"lcp", "fid", "cls"} THEN performanceData.webVitals[m]
    ELSE performanceData.metrics[m]

\* C8: a metric that was not harvested during the analysis (the page gave no
\* entry for it, or the analyzer does not measure it) is reported as null,
\* never as 0 or another placeholder.
UnharvestedMetricIsNull ==
    (Completed /\ outcome = "ok") =>
        \A m \in Metrics : IsNull(observed[m]) => IsNull(Reported(m))

\* C9: the network records of a completed analysis are the requests that
\* received their response: every record carries the status, size and
\* duration that the response handler fills in.
RecordsArePairedRequests ==
    (Completed /\ outcome = "ok") =>
        \A k \in 1..Len(performanceData.network.requests) :
            LET rec == performanceData.network.requests[k]
            IN  ~IsNull(rec.status) /\ ~IsNull(rec.size)
                /\ ~IsNull(rec.duration)

----------------------------------------------------------------------------
(* Properties of the score calculator (SpecScore) *)

\* the table of the score calculator: thresholds of the good and the
\* needs-improvement tier, and the deduction of each of the four tiers
TableThresholds ==
    [ lcp |-> <<2500, 4000>>, fid |-> <<100000, 300000>>,
      cls |-> <<100, 250>>, fcp |-> <<1800, 3000>>,
      tti |-> <<3800, 7300>>, tbt |-> <<200000, 600000>> ]

TableDeductions ==
    [ lcp |-> <<0, 10, 25, 15>>, fid |-> <<0, 10, 25, 0>>,
      cls |-> <<0, 10, 25, 15>>, fcp |-> <<0, 5, 10, 7>>,
      tti |-> <<0, 5, 10, 7>>, tbt |-> <<0, 2, 5, 3>> ]

TableDeduction(k, x) ==
    IF IsNull(x) THEN TableDeductions[k][4]
    ELSE IF Val(x) <= TableThresholds[k][1] THEN TableDeductions[k][1]
    ELSE IF Val(x) <= TableThresholds[k][2] THEN TableDeductions[k][2]
    ELSE TableDeductions[k][3]

ScoreArg(k) ==
    IF k \in {"lcp", "fid", "cls"} THEN scoreIn[1].webVitals[k]
    ELSE scoreIn[1].metrics[k]

TableScore ==
    100 - TableDeduction("lcp", ScoreArg("lcp"))
        - TableDeduction("fid", ScoreArg("fid"))
        - TableDeduction("cls", ScoreArg("cls"))
        - TableDeduction("fcp", ScoreArg("fcp"))
        - TableDeduction("tti", ScoreArg("tti"))
        - TableDeduction("tbt", ScoreArg("tbt"))

ScoreArgs(lcp, fid, cls, fcp, tti, tbt) ==
    [ metrics |-> [fcp |-> fcp, tti |-> tti, tbt |-> tbt],
      webVitals |-> [lcp |-> lcp, fid |-> fid, cls |-> cls] ]

\* the three documented scenarios
ScenarioMostlyMissing ==
    ScoreArgs(Null, Null, Some(0), Null, Null, Some(0))
ScenarioAllPoor ==
    ScoreArgs(Some(6100), Null, Some(300), Some(4500), Some(10000),
              Some(800000))
ScenarioNeedsImprovement ==
    ScoreArgs(Some(3500), Null, Some(150), Some(2500), Some(5000),
              Some(400000))

----------------------------------------------------------------------------
(* Properties of the timestamp normalization (SpecNorm) *)

TenMinutes == 600000 * 1000

\* the value normalization would give: the raw timestamp less the reference
WouldBe == Val(normIn[1].domInteractive) - normOut[1].navigationStart

\* C5: for every raw timestamp and navigation-start reference, the
\* normalized time is null or lies in 0..600000 ms, and a timestamp whose
\* normalized value would be negative or above 600000 ms gives null; the TTI
\* derived from it is null or within 0..600 s.
NormalizedInRange ==
    normOut # <<>> =>
        LET v == normOut[1].domInteractive
            tti == normOut[1].tti
        IN  /\ IsNull(v) \/ (0 <= Val(v) /\ Val(v) <= TenMinutes)
            /\ IsNull(tti) \/ (0 <= Val(tti) /\ Val(tti) <= 600000)
            /\ (~IsNull(normIn[1].domInteractive)
                /\ (WouldBe < 0 \/ WouldBe > TenMinutes)) => IsNull(v)

\* an absolute reading more than ten minutes after the navigation start was
\* normalized to null
NormalizedOutOfRange ==
    /\ normOut # <<>>
    /\ normIn[1].domInteractive = Some(1700000000)
    /\ normOut[1].navigationStart = 1000000000
    /\ IsNull(normOut[1].domInteractive)

----------------------------------------------------------------------------
(* Properties of the redirect check (SpecUrl) *)

\* the URL as written: protocol, "//", host, path
Written(url) == <<url.protocol, "/", "/">> \o url.host \o url.path

\* host and path as written, lowercased, the trailing slash stripped
HostPathNormal(url) == StripTrailingSlash(ToLowerCase(url.host \o url.path))

Requested == urlIn[1].requestedUrl

Flagged == ~IsNull(urlOut[1].urlRedirect)

\* C6: a redirect is flagged exactly when requested and final URL differ in
\* lowercased host+path with the trailing slash stripped; URLs that differ
\* only in letter case or a trailing slash are not flagged.
RedirectIffNormalizedDiffer ==
    urlOut # <<>> =>
        /\ Flagged <=> HostPathNormal(Requested)
                          # HostPathNormal(urlIn[1].finalUrl)
        /\ StripTrailingSlash(ToLowerCase(Written(Requested)))
             = StripTrailingSlash(ToLowerCase(Written(urlIn[1].finalUrl)))
           => ~Flagged

\* ex/P/ was requested, ex/p was reached, and no redirect is reported
CaseAndSlashNotFlagged ==
    /\ urlOut # <<>>
    /\ Requested.host = <<"e", "x">> /\ Requested.path = <<"/", "P", "/">>
    /\ urlIn[1].finalUrl.host = <<"e", "x">>
    /\ urlIn[1].finalUrl.path = <<"/", "p">>
    /\ ~Flagged

----------------------------------------------------------------------------
(* Properties of the issue detector (SpecIssues) *)

Issues == issuesOut[1]

IssueIds == {Issues[i].id : i \in 1..Len(Issues)}

\* C7: every issue of a report has estimated byte savings >= 0 and estimated
\* time savings >= 0, whatever records and metric values were given.
SavingsNonNegative ==
    issuesOut # <<>> =>
        \A i \in 1..Len(Issues) :
            Issues[i].savings.bytes >= 0 /\ Issues[i].savings.time >= 0

\* a report with at least three issues, one of them with byte savings
SeveralIssuesWithSavings ==
    /\ issuesOut # <<>>
    /\ Len(Issues) >= 3
    /\ \E i \in 1..Len(Issues) : Issues[i].savings.bytes > 0
    /\ \E i \in 1..Len(Issues) : Issues[i].savings.time > 0
    /\ ~IsNull(issuesIn[1].metrics.fcp)

GivenRequests == issuesIn[1].network.requests

SomeRequest(P(_)) == \E i \in 1..Len(GivenRequests) : P(GivenRequests[i])

SizeAbove(r, n) == ~IsNull(r.size) /\ Val(r.size) > n

\* the trigger of each of the five rules, on what the detector is given
Trigger(id) ==
    CASE id = "large-javascript-bundles" ->
            SomeRequest(LAMBDA r : r.resourceType = "script"
                                   /\ SizeAbove(r, 200000))
      [] id = "large-css-files" ->
            SomeRequest(LAMBDA r : r.resourceType = "stylesheet"
                                   /\ SizeAbove(r, 50000))
      [] id = "render-blocking-resources" ->
            SomeRequest(LAMBDA r : r.resourceType \in {"stylesheet", "script"}
                                   /\ ~IsNull(r.duration)
                                   /\ Val(r.duration) > 200)
      [] id = "too-many-requests" -> issuesIn[1].network.requestCount > 50
      [] id = "large-page-size" ->
            issuesIn[1].network.totalSize > 2 * 1024 * 1024

FiveRules ==
    {"large-javascript-bundles", "large-css-files",
     "render-blocking-resources", "too-many-requests", "large-page-size"}

\* C10: each of the five rules (oversized scripts, oversized stylesheets,
\* render-blocking, excessive requests, excessive page weight) is listed
\* exactly when its own trigger holds, once, whatever the other rules do.
RulesFireIndependently ==
    issuesOut # <<>> =>
        \A id \in FiveRules :
            /\ id \in IssueIds <=> Trigger(id)
            /\ Cardinality({i \in 1..Len(Issues) : Issues[i].id = id}) <= 1

\* all five triggers held and all five issues are listed
AllFiveListed ==
    /\ issuesOut # <<>>
    /\ \A id \in FiveRules : Trigger(id)
    /\ FiveRules \subseteq IssueIds

----------------------------------------------------------------------------
(* Properties of the report of the playwright generation (SpecReport) *)

Report == reportOut[1]

ReportIssue(id) ==
    {Report.issues[i] : i \in {j \in 1..Len(Report.issues) :
                                   Report.issues[j].id = id}}

\* C11: in a report built from the collector's output, the slow server
\* response issue is present exactly when FCP is above 1.8 s, and its time
\* saving is FCP less 1.8 s (both in milliseconds here).
SlowResponseIffFcpAbove ==
    reportOut # <<>> =>
        LET fcp == Report.metrics.fcp
        IN  /\ ReportIssue("slow-server-response") # {}
                <=> (~IsNull(fcp) /\ Val(fcp) > 1800)
            /\ \A issue \in ReportIssue("slow-server-response") :
                   issue.savings.time = Val(fcp) - 1800

CollectedImages ==
    SelectSeq(reportIn[1].network.requests,
              LAMBDA r : r.resourceType = "image" /\ ~IsNull(r.size)
                         /\ Val(r.size) > 100000)

\* C12: when the collector recorded an image larger than 100KB, the report
\* lists the oversized images issue, with byte savings of 40% of the bytes
\* of those images.
LargeImageListed ==
    (reportOut # <<>> /\ Len(CollectedImages) > 0) =>
        /\ ReportIssue("unoptimized-images") # {}
        /\ \A issue \in ReportIssue("unoptimized-images") :
               issue.savings.bytes
                   = Round(4 * SumSizeOf(CollectedImages), 10)

----------------------------------------------------------------------------
(* Properties of the steps of the playwright analysis (Spec) *)

\* positions of the steps after which a failure should only cost a field:
\* network throttling, the network idle wait, LCP sampling and the harvests
DegradingPcs ==
    {"throttle", "networkidle", "lcpLoop", "harvestVitals", "harvestPaints"}

\* C13: a failure while applying throttling, waiting for network idle, or
\* sampling or harvesting a metric never makes the analysis fail: no step
\* taken from one of these positions ends the request with an error code.
StepFailureDegrades ==
    [][(pc \in DegradingPcs) => outcome' \in {"running", "ok"}]_vars

\* positions from page.goto to the last harvest
CoveredPcs == {"goto", "networkidle", "lcpLoop", "finalWait",
               "harvestVitals", "collectNetwork", "harvestPaints"}

\* C14: one overall timeout bounds navigation, the LCP stabilization loop and
\* harvesting: the analysis is never still running in one of these phases
\* after more than the timeout has elapsed, and none succeeds after it.
OverallTimeoutBoundsAnalysis ==
    ((outcome = "running" /\ pc \in CoveredPcs) \/ outcome = "ok")
        => elapsed <= timeout

----------------------------------------------------------------------------
(* Properties of the authentication of a lighthouse analysis (SpecLH) *)

\* C15: when the auth option is a login form descriptor, the login sub-flow
\* has been executed by the time Lighthouse audits the target page.
LoginBeforeAudit ==
    \A r \in Requests :
        (lhAuth[r] = "login" /\ lhAttached[r] # 0) => lhLoggedIn[r]

\* C16: for an auth object without any usable credential, building the
\* session never fails the request: the step leaves no extra header, no
\* cookie and no storage, and the analysis goes on to the audit.
EmptyCredentialsProceed ==
    [][\A r \in Requests :
          (lhAuth[r] = "empty" /\ lhPc[r] = "auth" /\ lhPc'[r] # "auth") =>
              /\ lhPc'[r] = "before"
              /\ lhOutcome'[r] = "running"
              /\ lhHeaders'[r] = {}
              /\ \A b \in Requests :
                     r \notin lhCookies'[b] /\ r \notin lhStorage'[b]]_vars

\* a request with an empty auth object was audited and completed
EmptyCredentialsAudited ==
    \E r \in Requests :
        /\ lhAuth[r] = "empty"
        /\ lhAttached[r] # 0
        /\ lhOutcome[r] = "ok"
        /\ lhHeaders[r] = {}

----------------------------------------------------------------------------
(* Properties of the server's request handler (SpecServer) *)

\* the url of the request is missing or malformed
InvalidUrl(r) == svUrl[r] # "wellformed"

\* C17: a request whose URL is missing or malformed never reaches the
\* analysis: its browser is never launched, no step of its analysis runs,
\* and the response it gets is a 400 with an invalid-input code.
InvalidUrlRejectedBeforeLaunch ==
    \A r \in Requests :
        InvalidUrl(r) =>
            /\ lhPc[r] \in {"received", "responded"}
            /\ lhBrowser[r] = "null"
            /\ lhAttached[r] = 0
            /\ lhOutcome[r] = "running"
            /\ lhPc[r] = "responded" =>
                   /\ svResponse[r][1].status = 400
                   /\ svResponse[r][1].code \in
                          {"MISSING_URL", "EMPTY_URL", "INVALID_FORMAT",
                           "INVALID_PROTOCOL"}

\* a malformed URL was answered with 400 while the other request, with a
\* well-formed URL, was analysed
MalformedRejectedOtherAnalysed ==
    \E r, q \in Requests :
        /\ svUrl[r] = "unparseable"
        /\ lhPc[r] = "responded"
        /\ svResponse[r][1].status = 400
        /\ svUrl[q] = "wellformed"
        /\ lhAttached[q] # 0

----------------------------------------------------------------------------
(* Properties of the issues of the lighthouse generation (SpecLhr) *)

\* C18: every issue of the final report carries the list of the resources
\* it affects, each with url, size and wasted bytes, at most 10 per issue.
IssuesCarryResources ==
    lhrOut # <<>> =>
        \A i \in 1..Len(lhrOut[1].issues) :
            LET issue == lhrOut[1].issues[i]
            IN  /\ "items" \in DOMAIN issue
                /\ Len(issue.items) <= MaxResourceItems
                /\ \A k \in 1..Len(issue.items) :
                       {"url", "transferSize", "wastedBytes"}
                           \subseteq DOMAIN issue.items[k]

\* the extracted opportunities and diagnostics keep at most 10 resources
ExtractedResourcesCapped ==
    lhrOut # <<>> =>
        \A list \in {lhrOut[1].opportunities, lhrOut[1].diagnostics} :
            \A i \in 1..Len(list) : Len(list[i].items) <= MaxResourceItems

----------------------------------------------------------------------------
(* Properties of the LCP stabilization loop (SpecLoop, SpecLoopFair) *)

\* the last n samples are the same LCP value (not null)
LastEqual(n) ==
    LET last == sampled.last
    IN  /\ Len(last) >= n
        /\ \A i \in (Len(last) - n + 1)..Len(last) :
               ~IsNull(last[i]) /\ last[i] = last[Len(last)]

\* C19, as stated: the loop stops sampling as soon as the same value was
\* observed on two consecutive samples, and otherwise after 10 samples.
LoopStopsOnSecondEqualSample ==
    /\ pc = "lcpLoop" => ~LastEqual(2)
    /\ pc = "finalWait" =>
           (LastEqual(2) \/ sampled.count = MaxLcpSamples)

\* C19, amended: the loop stops sampling as soon as the same value was
\* observed on three consecutive samples (it repeated twice in a row), and
\* otherwise after 10 samples.
LoopStopsOnThirdEqualSample ==
    /\ pc = "lcpLoop" => ~LastEqual(3)
    /\ pc = "finalWait" =>
           (LastEqual(3) \/ sampled.count = MaxLcpSamples)

\* the candidate was accepted before the tenth sample
AcceptedOnThirdEqualSample ==
    /\ pc = "finalWait"
    /\ LastEqual(3)
    /\ sampled.count < MaxLcpSamples

\* C20: whatever the samples are, the loop takes at most 10 of them and the
\* analysis then goes on to harvesting.
LoopFinishesWithinTenSamples ==
    /\ [](sampled.count <= MaxLcpSamples)
    /\ <>(pc = "harvestVitals")

\* the loop ran its 10 samples on an LCP that kept changing
TenChangingSamples ==
    /\ pc = "finalWait"
    /\ sampled.count = MaxLcpSamples
    /\ pageLcp >= MaxLcpSamples - 1
    /\ stableCount = 0

----------------------------------------------------------------------------
(* Properties of the network accumulators of one analysis (Spec) *)

\* the records of the returned data that a response has completed
CompletedRecords ==
    {k \in 1..Len(performanceData.network.requests) :
        ~IsNull(performanceData.network.requests[k].status)}

RECURSIVE SumRecordSizes(_)
\* sum of the sizes the reported records carry
SumRecordSizes(recs) ==
    IF recs = <<>> THEN 0
    ELSE (IF IsNull(Head(recs).size) THEN 0 ELSE Val(Head(recs).size))
         + SumRecordSizes(Tail(recs))

\* C21: whatever the order of the request and response events, also with
\* several of them for one URL, every record is completed exactly once by
\* its response: the responses counted are the completed records, and the
\* total size is the size those records carry.
RecordsCompletedOnce ==
    (Completed /\ outcome = "ok") =>
        /\ performanceData.network.responseCount
               = Cardinality(CompletedRecords)
        /\ performanceData.network.totalSize
               = SumRecordSizes(performanceData.network.requests)

RECURSIVE SumByType(_, _)
\* sum of one field of resourcesByType over a set of resource types
SumByType(types, field) ==
    IF types = {} THEN 0
    ELSE LET t == CHOOSE x \in types : TRUE
         IN  performanceData.network.resourcesByType[t][field]
             + SumByType(types \ {t}, field)

\* C25: at harvest the per-type aggregates agree with the totals: the
\* counts add up to the number of reported records and the byte totals add
\* up to the reported total size.
AggregatesMatchTotals ==
    (Completed /\ outcome = "ok") =>
        LET byType == performanceData.network.resourcesByType
        IN  /\ SumByType(DOMAIN byType, "count")
                   = Len(performanceData.network.requests)
            /\ SumByType(DOMAIN byType, "totalSize")
                   = performanceData.network.totalSize

\* the phase of an analysis, from the statement it is about to execute:
\* 1 Launching, 2 ContextConfigured, 3 Navigating, 4 Stabilizing,
\* 5 Harvesting, 6 TornDown (the finally block and the return after it)
PhaseOf(p) ==
    CASE p = "launch" -> 1
      [] p \in {"newContext", "newPage", "throttle", "listeners", "initScript"} -> 2
      [] p \in {"goto", "networkidle"} -> 3
      [] p \in {"lcpLoop", "finalWait"} -> 4
      [] p \in {"harvestVitals", "collectNetwork", "harvestPaints"} -> 5
      [] p \in {"finally", "done"} -> 6

\* C22: an analysis moves through the phases Launching, ContextConfigured,
\* Navigating, Stabilizing, Harvesting and TornDown in this order only (a
\* step never leads to an earlier phase), and an analysis that launched a
\* browser and completed went through the teardown, which closed the browser.
PhasesInOrder ==
    /\ [][PhaseOf(pc') >= PhaseOf(pc)]_vars
    /\ []((PhaseOf(pc) > 1 /\ outcome # "running") => PhaseOf(pc) = 6)
    /\ []((Completed /\ browser # "null") => (PhaseOf(pc) = 6 /\ "browser" \in closeCalls))

\* a successful analysis that went through every phase and was torn down
AllPhasesVisited ==
    /\ pc = "done"
    /\ outcome = "ok"
    /\ performanceData.webVitals.lcp # Null
    /\ browser = "closed"

\* C23: the request/response listeners and the layout-shift and LCP
\* observers are registered before navigation begins: whenever the analysis
\* is about to navigate or has navigated, and whenever the page has emitted
\* any event, both registrations are in place; and the step that starts the
\* navigation is taken with both in place.
InstrumentedBeforeNavigation ==
    /\ []((PhaseOf(pc) \in 3..5 \/ events > 0) => (listening /\ observers))
    /\ [][(pc = "goto" /\ pc' # "goto") => (listening /\ observers)]_vars

\* the navigation succeeded and the page has emitted events that the
\* listeners and observers registered earlier received
NavigatedWithInstrumentation ==
    /\ pc = "networkidle"
    /\ listening /\ observers
    /\ network.requestCount > 0
    /\ pageLcp > 0

\* C24: a raw timing value that already lies within 0..600000 ms is
\* returned unchanged, and the navigation-start reference is subtracted only
\* from raw values outside that range (the result being null when it is
\* itself out of range).
RelativeValuesReturnedUnchanged ==
    (normOut # <<>> /\ ~IsNull(normIn[1].domInteractive)) =>
        LET raw == normIn[1].domInteractive
            result == normOut[1].domInteractive
        IN  IF 0 <= Val(raw) /\ Val(raw) <= TenMinutes
            THEN result = raw
            ELSE IsNull(result) \/ Val(result) = WouldBe

\* C26: a metric measured as exactly 0 is reported with the value 0 and
\* scored in the good tier with no deduction; it is not turned into null
\* and not scored as missing.
ZeroMeasurementReportedGood ==
    (Completed /\ outcome = "ok") =>
        \A m \in Metrics :
            observed[m] = Some(0) =>
                /\ Reported(m) = Some(0)
                /\ Deductions(performanceData.metrics,
                              performanceData.webVitals)[m] = Entry(0, "good")

\* C27: the LCP value of the analysis result (the harvested webVitals.lcp
\* after its validation) is the value the stabilization loop accepted as
\* final: the stable value, or the last sampled value when the loop ended
\* at its sample limit; both are what lastLcpValue holds after the loop.
ResultLcpIsLoopAccepted ==
    (pc \in {"collectNetwork", "harvestPaints"}) =>
        ValidLcp(vitals.lcp) = ValidLcp(lastLcpValue)

\* kinds of auth object that carry authentication data
AuthData == {"cookies", "storage", "login"}

\* C28: a request that carries authentication data is not rejected because
\* the unauthenticated reachability probe of its URL answered 401 or 403: no
\* such request is answered with the probe's "Authentication required" or
\* "Access forbidden" error.
AuthenticatedProbeProceeds ==
    \A r \in Requests :
        (lhAuth[r] \in AuthData /\ svResponse[r] # <<>>
           /\ svResponse[r][1].code = "NOT_ACCESSIBLE") =>
            svResponse[r][1].message \notin
                {"Authentication required", "Access forbidden"}

\* C29: the redirect check of the report compares the requested URL with
\* the verifiedFinalUrl the analyzer recorded: a run whose verified URL is
\* the requested URL is not flagged as redirected.
VerifiedUrlNotFlagged ==
    (urlOut # <<>> /\ urlIn[1].verifiedFinalUrl = urlOut[1].originalUrl) =>
        IsNull(urlOut[1].urlRedirect)

\* C30: the values submitted in the Analyze modal reach the backend
\* unchanged: the body posted to /api/analyze has url equal to the entered
\* URL string (trimmed, prefixed with https:// when no scheme was typed),
\* the selected deviceType and networkThrottling, and the auth data when
\* authentication is enabled and session data was given.
SubmittedValuesReachBackend ==
    (submitOut # <<>> /\ submitOut[1].sent) =>
        LET modal == submitIn[1]
            body == submitOut[1].body
        IN  /\ body.url.type = "string"
            /\ body.url.value = FormattedUrl(modal.url)
            /\ body.deviceType = modal.deviceType
            /\ body.networkThrottling = modal.networkThrottling
            /\ AuthDataOf(modal) # <<>> =>
                  ("auth" \in DOMAIN body /\ body.auth = AuthDataOf(modal)[1])

====
